---- MODULE Spec2Model ----
(***************************************************************************)
(* Model of the memory-augmented iterative reasoning engine of             *)
(* reasoning-bank-mcp:                                                     *)
(*   - IterativeReasoningAgent.solve_task      (think/evaluate/refine)     *)
(*   - IterativeReasoningAgent.solve_with_matts (multi-attempt search)     *)
(*   - CachedLLMClient                          (response cache)           *)
(*   - ReasoningBank                            (composite scoring)        *)
(* Scores are percentages (0.85 is 85); time is in whole seconds.          *)
(***************************************************************************)
EXTENDS Integers, Sequences, FiniteSets, TLC

\* ------------------------------------------------------------------------
\* Bounds of the model
\* ------------------------------------------------------------------------
NumSolutions == 4
NumCallers == 2          \* concurrent callers of CachedLLMClient.create
NumMsgs == 3             \* distinct message lists requested
NumResults == 2          \* distinct responses of the generator
MaxTime == 2             \* the clock runs from 0 to MaxTime
MaxCreate == 4           \* create calls begun, concurrent specification
MaxCreateSeq == 11       \* create calls begun, single-caller specification
MaxHitsSeq == 1          \* hits counted, single-caller specification
MaxBypassSeq == 1        \* bypasses counted, single-caller specification
MaxCreateLock == 3       \* create calls begun, lock specification
MaxCreateSweep == 11     \* create calls begun, sweep specification
NumMsgsSweep == 2        \* distinct message lists, sweep specification
MaxK == 3                \* largest k given to solve_with_matts
MaxCacheSize == 2        \* max_cache_size of the cache under study
Ttl == 1                 \* ttl_seconds of the cache under study
NumModels == 2           \* model names given to _generate_cache_key
NumKwNames == 2          \* names of extra parameters, in their sort order
NumKwValues == 2         \* values of an extra parameter
MaxResults == 2          \* largest n_results given to retrieve_memories
NumMemories == 2         \* records the memory store holds
MaxMemCacheSize == 3     \* largest max_size of a MemoryCache
NumMemIds == 4           \* memory ids given to the MemoryCache
NumMemData == 2          \* distinct memory data given to MemoryCache.put
MaxMemOps == 5           \* calls made on a MemoryCache
MemTtl == 1              \* ttl_seconds of the MemoryCache

\* ------------------------------------------------------------------------
\* Program constants
\* ------------------------------------------------------------------------
MaxIterations == 3
SuccessThreshold == 80
MinTaskLen == 10
DefaultScore == 50
SweepEvery == 10
TemperatureGenerate == 70
DefaultSimilarity == 50
DefaultRecency == 50
ErrorBoost == 100

VARIABLES
    \* ---- IterativeReasoningAgent: state of the agent object
    trajectory_hashes,   \* self._trajectory_hashes
    total_tokens_used,   \* self._total_tokens_used
    \* ---- solve_task: locals of the running call
    pc,                  \* position of solve_task: idle, think, evaluate, done, raised
    task,                \* trimmed length of the task text
    memories,            \* number of memories used by the run
    iteration,           \* loop variable of the for loop
    trajectory,          \* the trajectory list
    best_solution,
    best_score,
    current_solution,
    current_feedback,
    solution,            \* solution returned by the think step of this iteration
    loop_detected,
    early_termination,
    result,              \* the SolutionResult returned, NoResult before
    thinkCalls,          \* think steps invoked by the running call
    evalCalls,           \* evaluate steps invoked by the running call
    retrievals,          \* retrieve_memories calls made by the running call
    retrieval_failed,    \* the retrieve_memories call of the running call raised
    prev_hashes,         \* self._trajectory_hashes as the running call found it,
                         \* remembered up to the first evaluation of the call
    outcomes,            \* outcomes of the generator calls of the running call
    \* ---- CachedLLMClient
    cache,               \* self._cache: entries in OrderedDict order, oldest first
    cache_hits,
    cache_misses,
    cache_bypassed,
    now,                 \* time.time()
    cpc,                 \* position of each caller inside create
    creq,                \* the request of each caller
    cres,                \* the response each caller holds
    calls,               \* generator invocations made for the caller's request
    path,                \* branch of create the caller's request took
    nCreate,             \* create calls begun
    scen,                \* insertions since the cache was last empty
    cache_lock,          \* holder of self._cache_lock, 0 when it is free
    stats,               \* the CacheStatistics last returned by get_statistics
    recency,             \* the cached keys by their last access, oldest first
    nCalls,              \* generator invocations made through the client
    due,                 \* the miss the caller counted was a SweepEvery-th one
    kreq,                \* the request last given to _generate_cache_key
    kkey,                \* the key it returned
    \* ---- solve_with_matts: locals of the running call
    mpc,                 \* position: idle, generate, refine_think, refine_eval, done, raised
    mtask,               \* trimmed length of the task text
    mk,                  \* k
    mpath,               \* sequential, gather (asyncio.run), threads (pool), fallback
    mrefine,             \* refine_best
    mmemories,           \* number of memories used by the search
    mpending,            \* candidate ids not yet generated
    mresults,            \* results of the parallel attempts, in collection order
    candidates,          \* the candidates list
    best_candidate,
    refined_solution,
    mtrajectory,         \* the trajectory list
    mresult,             \* the SolutionResult returned, NoResult before
    mretrievals,         \* retrieve_memories calls made by the running call
    mprompts,            \* the prompt of each think step: candidates by id, refine at 0
    mgencalls,           \* generator calls made for the candidates
    mrefcalls,           \* generator calls made by the refine pass
    mfailed,             \* ids of the candidates whose generation failed
    mgenfail,            \* some generator call of the running call failed
    mmode,               \* the mode argument of the running call
    mretrieval_failed,   \* the retrieve_memories call of the running call raised
    mreftokens,          \* tokens the refine pass of the running call reported
    \* ---- ReasoningBank
    bank,                \* the weights of the ReasoningBank object
    found,               \* what retrieve_memories last returned
    \* ---- MemoryCache
    mc_cache,            \* self.cache: entries in OrderedDict order, oldest first
    mc_max_size,         \* self.max_size, NotConstructed before __init__
    mc_hits,             \* self.hits
    mc_misses,           \* self.misses
    mc_evictions,        \* self.evictions
    mc_ret,              \* what the last call returned
    mc_use,              \* the cached ids, least recently used first
    mc_ops               \* calls made on the cache

agentVars == <<trajectory_hashes, total_tokens_used>>
loopVars == <<pc, task, memories, iteration, trajectory, best_solution, best_score,
              current_solution, current_feedback, solution, loop_detected,
              early_termination, result, thinkCalls, evalCalls, retrievals, outcomes,
              retrieval_failed, prev_hashes>>
cacheVars == <<cache, cache_hits, cache_misses, cache_bypassed, now,
               cpc, creq, cres, calls, path, nCreate, scen, cache_lock, stats, recency,
               nCalls, due>>
mattsVars == <<mpc, mtask, mk, mpath, mrefine, mmemories, mpending, mresults, candidates,
               best_candidate, refined_solution, mtrajectory, mresult, mretrievals,
               mprompts, mgencalls, mrefcalls, mfailed, mgenfail, mmode,
               mretrieval_failed, mreftokens>>
keyVars == <<kreq, kkey>>
bankVars == <<bank, found>>
memVars == <<mc_cache, mc_max_size, mc_hits, mc_misses, mc_evictions, mc_ret, mc_use,
             mc_ops>>
vars == <<agentVars, loopVars, cacheVars, mattsVars, keyVars, bankVars, memVars>>

\* ------------------------------------------------------------------------
\* Values
\* ------------------------------------------------------------------------
\* None, as the value of a solution variable and of the memories argument
None == 0
NoMemoriesArg == -1
NoFeedback == "None"
NoResult == [kind |-> "none"]
\* the text "Failed to generate solution"
FailedSolution == -1

Solutions == 1..NumSolutions

Callers == 1..NumCallers
Msgs == 1..NumMsgs
\* a message list json.dumps cannot serialize (a bytes content, say)
BadMsg == NumMsgs + 1
Responses == 1..NumResults
Temperatures == {0, TemperatureGenerate}
NoRequest == [msg |-> 0, temp |-> 0]
NoResponse == 0
\* the response slot of a caller whose create raised
Raised == -1
NoCandidate == [solution |-> None, score |-> 0, feedback |-> NoFeedback,
                tokens_used |-> 0, candidate_id |-> 0]
\* the text "Failed to generate any solution candidates"
FailedCandidates == -2
\* a float quotient, kept as its numerator and denominator
Ratio(n, d) == [num |-> n, den |-> d]
NoStatistics == [cache_hits |-> 0, cache_misses |-> 0, cache_bypassed |-> 0,
                 total_requests |-> 0, hit_rate |-> Ratio(0, 1),
                 cost_savings_estimate |-> Ratio(0, 1)]
\* the state of _generate_cache_key before its first call
NoKeyRequest == [model |-> 0, messages |-> 0, temperature |-> 0, max_tokens |-> 0,
                 max_output_tokens |-> 0, reasoning_effort |-> 0, kwargs |-> <<>>]
NoKey == <<>>
\* no ReasoningBank constructed yet, no call made on it yet
NoBank == [state |-> "none", configured |-> <<0, 0, 0>>,
           similarity_weight |-> Ratio(0, 1), recency_weight |-> Ratio(0, 1),
           error_weight |-> Ratio(0, 1)]
\* max_size of a MemoryCache that is not constructed yet
NotConstructed == -1
NoRetrieval == [state |-> "none", memories |-> <<>>, candidates |-> <<>>,
                n_results |-> 0, requested |-> 0]
FreshScenario == [pure |-> TRUE, log |-> <<>>, first |-> 0, last |-> 0]
BrokenScenario == [pure |-> FALSE, log |-> <<>>, first |-> 0, last |-> 0]

\* Trimmed lengths of the task texts offered to solve_task
TaskLens == {0, MinTaskLen - 1, MinTaskLen, MinTaskLen + 15}

\* _compute_trajectory_hash: the first 16 hex digits of SHA-256.  Equal texts
\* give equal hashes; the truncation makes the function non-injective, which
\* the last two solution texts stand for.
_compute_trajectory_hash(s) == IF s = NumSolutions THEN NumSolutions - 1 ELSE s

\* Outcomes of one _think_step call: a generated solution with its token
\* count, or LLMGenerationError.
ThinkOutcomes ==
    [kind : {"ok"}, solution : Solutions, tokens : {1, 2}]
    \cup {[kind |-> "error", solution |-> 0, tokens |-> 0]}

\* _parse_evaluation_response clamps a parsed score to [0, 1]
MutClampNone(raw) == raw
Clamp(raw) == IF raw < 0 THEN 0 ELSE IF raw > 100 THEN 100 ELSE raw

RawScores == {-10, 0, 60, 80, 85, 150}

\* _parse_evaluation_response: the score of a response that carries
\* "Score: <raw>" (parsable), the default score of any other response
MutParseDefaultsToZero(parsable, raw) == IF parsable THEN Clamp(raw) ELSE 0
_parse_evaluation_response(parsable, raw) == IF parsable THEN Clamp(raw) ELSE DefaultScore

\* the feedback of a response without a "Feedback:" line: the fixed text for
\* a short response, the whole response ("raw") for a longer one
FallbackFeedback == {"No feedback provided", "raw"}

\* Outcomes of one _evaluate_step call:
\*   scored   - the response carries "Score: <raw>" and "Feedback: ..."
\*   unparsed - the response carries no parsable score: default score, and
\*              a fallback feedback
\*   failed   - the generator call raised: default score, fixed feedback, 0 tokens
EvalOutcomes ==
    {[kind |-> "scored", score |-> _parse_evaluation_response(TRUE, r),
      feedback |-> "fb", tokens |-> 3] : r \in RawScores}
    \cup {[kind |-> "unparsed", score |-> _parse_evaluation_response(FALSE, 0),
           feedback |-> f, tokens |-> 3] : f \in FallbackFeedback}
    \cup {[kind |-> "failed", score |-> DefaultScore,
           feedback |-> "Evaluation failed, continuing with default score", tokens |-> 0]}

Entry(i, a, o, s, f) ==
    [iteration |-> i, action |-> a, output |-> o, score |-> s, feedback |-> f]

\* number of entries of trajectory t with action a
RECURSIVE CountAction(_, _)
CountAction(t, a) ==
    IF t = <<>> THEN 0
    ELSE (IF Head(t).action = a THEN 1 ELSE 0) + CountAction(Tail(t), a)

\* The prompt of a _think_step call: the generation prompt in iteration 1,
\* the refinement prompt, which carries the previous solution and the
\* feedback, in every other iteration.
NoPrompt == [kind |-> "none", previous_solution |-> None, feedback |-> NoFeedback]
ThinkPrompt(it, previous_solution, feedback) ==
    IF it = 1
    THEN [kind |-> "generation", previous_solution |-> None, feedback |-> NoFeedback]
    ELSE [kind |-> "refinement", previous_solution |-> previous_solution,
          feedback |-> feedback]

\* _build_refinement_prompt joins its parts with "\n".join, which raises
\* TypeError when previous_solution or feedback is None; the prompt is built
\* before the try block of _think_step
MutPromptFailsNever(it, previous_solution, feedback) == FALSE
PromptFails(it, previous_solution, feedback) ==
    it # 1 /\ (previous_solution = None \/ feedback = NoFeedback)

\* ------------------------------------------------------------------------
\* solve_task
\* ------------------------------------------------------------------------
Init ==
    /\ trajectory_hashes = {}
    /\ total_tokens_used = 0
    /\ pc = "idle"
    /\ task = 0
    /\ memories = 0
    /\ iteration = 0
    /\ trajectory = <<>>
    /\ best_solution = None
    /\ best_score = 0
    /\ current_solution = None
    /\ current_feedback = NoFeedback
    /\ solution = None
    /\ loop_detected = FALSE
    /\ early_termination = FALSE
    /\ result = NoResult
    /\ thinkCalls = 0
    /\ evalCalls = 0
    /\ retrievals = 0
    /\ outcomes = <<>>
    /\ retrieval_failed = FALSE
    /\ prev_hashes = {}
    /\ cache = <<>>
    /\ cache_hits = 0
    /\ cache_misses = 0
    /\ cache_bypassed = 0
    /\ now = 0
    /\ cpc = [p \in Callers |-> "idle"]
    /\ creq = [p \in Callers |-> NoRequest]
    /\ cres = [p \in Callers |-> NoResponse]
    /\ calls = [p \in Callers |-> 0]
    /\ path = [p \in Callers |-> "none"]
    /\ nCreate = 0
    /\ scen = FreshScenario
    /\ cache_lock = 0
    /\ stats = NoStatistics
    /\ recency = <<>>
    /\ nCalls = 0
    /\ due = [p \in Callers |-> FALSE]
    /\ kreq = NoKeyRequest
    /\ kkey = NoKey
    /\ mpc = "idle"
    /\ mtask = 0
    /\ mk = 0
    /\ mpath = "none"
    /\ mrefine = FALSE
    /\ mmemories = 0
    /\ mpending = {}
    /\ mresults = <<>>
    /\ candidates = <<>>
    /\ best_candidate = NoCandidate
    /\ refined_solution = None
    /\ mtrajectory = <<>>
    /\ mresult = NoResult
    /\ mretrievals = 0
    /\ mprompts = [c \in 0..MaxK |-> NoPrompt]
    /\ mgencalls = [think |-> 0, evaluate |-> 0]
    /\ mrefcalls = [think |-> 0, evaluate |-> 0]
    /\ mfailed = {}
    /\ mgenfail = FALSE
    /\ mmode = "none"
    /\ mretrieval_failed = FALSE
    /\ mreftokens = 0
    /\ bank = NoBank
    /\ found = NoRetrieval
    /\ mc_cache = <<>>
    /\ mc_max_size = NotConstructed
    /\ mc_hits = 0
    /\ mc_misses = 0
    /\ mc_evictions = 0
    /\ mc_ret = None
    /\ mc_use = <<>>
    /\ mc_ops = 0

\* the SolutionResult built at the end of solve_task
MutBuildResultForgetsBest(bsol, bscore, traj, tokens, early, loop) ==
    [kind |-> "result", solution |-> FailedSolution, score |-> 0,
     iterations |-> CountAction(traj, "think"), total_tokens |-> tokens,
     early_termination |-> early, loop_detected |-> loop]
BuildResult(bsol, bscore, traj, tokens, early, loop) ==
    [kind |-> "result",
     solution |-> IF bsol = None THEN FailedSolution ELSE bsol,
     score |-> IF bsol = None THEN 0 ELSE bscore,
     iterations |-> CountAction(traj, "think"),
     total_tokens |-> tokens,
     early_termination |-> early,
     loop_detected |-> loop]

\* the task check at the head of solve_task and solve_with_matts
MutValidTaskShorter(len) == len >= MinTaskLen - 1
ValidTask(len) == len >= MinTaskLen

\* the for loop: another iteration follows iteration it
MutLoopContinuesOffByOne(it) == it <= MaxIterations
LoopContinues(it) == it < MaxIterations

\* score >= self.success_threshold
MutReachedThresholdStrict(score) == score > SuccessThreshold
ReachedThreshold(score) == score >= SuccessThreshold

\* trajectory_hash in self._trajectory_hashes
MutHashSeenNever(h, hs) == FALSE
HashSeen(h, hs) == h \in hs

\* the locals of a fresh call of solve_task
FreshLocals ==
    /\ trajectory' = <<>>
    /\ best_solution' = None
    /\ best_score' = 0
    /\ current_solution' = None
    /\ current_feedback' = NoFeedback
    /\ solution' = None
    /\ loop_detected' = FALSE
    /\ early_termination' = FALSE
    /\ result' = NoResult
    /\ thinkCalls' = 0
    /\ evalCalls' = 0
    /\ outcomes' = <<>>

\* A call of solve_task with an invalid task raises InvalidTaskError before
\* the agent's state is touched.
SolveTaskInvalid(len) ==
    /\ pc = "idle"
    /\ ~ValidTask(len)
    /\ pc' = "raised"
    /\ task' = len
    /\ FreshLocals
    /\ retrievals' = 0
    /\ retrieval_failed' = FALSE
    /\ iteration' = 0
    /\ UNCHANGED <<agentVars, memories, prev_hashes, cacheVars, mattsVars, keyVars, bankVars, memVars>>

\* if use_memory and memories is None: the call retrieves memories itself
Retrieves(given, use_memory) == use_memory /\ given = NoMemoriesArg

\* The memories of a run: the memories argument when it is given; else what
\* retrieve_memories returns, the empty list when it raises (retrieved < 0);
\* the empty list when use_memory is off.
MutMemoriesForPropagates(given, use_memory, retrieved) ==
    IF given # NoMemoriesArg THEN given ELSE IF use_memory THEN retrieved ELSE 0
MemoriesFor(given, use_memory, retrieved) ==
    IF given # NoMemoriesArg THEN given
    ELSE IF use_memory THEN (IF retrieved < 0 THEN 0 ELSE retrieved)
    ELSE 0

\* self._trajectory_hashes.clear() at the start of a run
MutResetHashesKept(hs) == hs
ResetHashes(hs) == {}

\* solve_task up to the head of the loop: validation, reset, retrieval.
\* given: the memories argument (None or a number of memories);
\* retrieved: what retrieve_memories gives (negative when it raises).
SolveTaskStart(len, given, use_memory, retrieved) ==
    /\ pc = "idle"
    /\ ValidTask(len)
    /\ task' = len
    /\ prev_hashes' = trajectory_hashes
    /\ trajectory_hashes' = ResetHashes(trajectory_hashes)
    /\ total_tokens_used' = 0
    /\ retrievals' = IF Retrieves(given, use_memory) THEN 1 ELSE 0
    /\ retrieval_failed' = (Retrieves(given, use_memory) /\ retrieved < 0)
    /\ memories' = MemoriesFor(given, use_memory, retrieved)
    /\ UNCHANGED <<cacheVars, mattsVars, keyVars, bankVars, memVars>>
    /\ FreshLocals
    /\ IF MaxIterations >= 1
       THEN /\ iteration' = 1
            /\ pc' = "think"
       ELSE /\ iteration' = 0
            /\ pc' = "done"

\* leaving the loop: build and return the result
Finish(traj, bsol, bscore, tokens, early, loop) ==
    /\ pc' = "done"
    /\ result' = BuildResult(bsol, bscore, traj, tokens, early, loop)

\* The think step of an iteration, the loop detection and the think entry.
ThinkStep(o) ==
    /\ pc = "think"
    /\ thinkCalls' = thinkCalls + 1
    /\ outcomes' = Append(outcomes,
          [step |-> "think", iteration |-> iteration,
           kind |-> IF PromptFails(iteration, current_solution, current_feedback)
                    THEN "error" ELSE o.kind])
    /\ IF o.kind = "error" \/ PromptFails(iteration, current_solution, current_feedback)
       THEN \* except Exception: error entry, break
            /\ trajectory' = Append(trajectory, Entry(iteration, "error", None, -1, NoFeedback))
            /\ Finish(trajectory', best_solution, best_score, total_tokens_used,
                      early_termination, loop_detected)
            /\ UNCHANGED <<agentVars, solution, loop_detected>>
       ELSE /\ total_tokens_used' = total_tokens_used + o.tokens
            /\ solution' = o.solution
            /\ IF HashSeen(_compute_trajectory_hash(o.solution), trajectory_hashes)
               THEN /\ loop_detected' = TRUE
                    /\ trajectory' = Append(trajectory,
                          Entry(iteration, "loop_detected",
                                _compute_trajectory_hash(o.solution), -1, NoFeedback))
                    /\ Finish(trajectory', best_solution, best_score,
                              total_tokens_used', early_termination, TRUE)
                    /\ UNCHANGED trajectory_hashes
               ELSE /\ trajectory_hashes' = trajectory_hashes
                                             \cup {_compute_trajectory_hash(o.solution)}
                    /\ trajectory' = Append(trajectory,
                          Entry(iteration, "think", o.solution, -1, NoFeedback))
                    /\ pc' = "evaluate"
                    /\ UNCHANGED <<loop_detected, result>>
    /\ UNCHANGED <<task, memories, iteration, best_solution, best_score,
                   current_solution, current_feedback, early_termination, evalCalls,
                   retrievals, retrieval_failed, cacheVars, mattsVars,
                   keyVars, bankVars, memVars>>
    /\ prev_hashes' = IF pc' = "evaluate" THEN prev_hashes ELSE {}

\* The evaluate step of an iteration, the best-solution update, the
\* threshold check and the step to the next iteration or out of the loop.
EvaluateStep(o) ==
    /\ pc = "evaluate"
    /\ evalCalls' = evalCalls + 1
    /\ outcomes' = Append(outcomes,
          [step |-> "evaluate", iteration |-> iteration, kind |-> o.kind])
    /\ total_tokens_used' = total_tokens_used + o.tokens
    /\ best_solution' = IF o.score > best_score THEN solution ELSE best_solution
    /\ best_score' = IF o.score > best_score THEN o.score ELSE best_score
    /\ IF ReachedThreshold(o.score)
       THEN /\ early_termination' = TRUE
            /\ trajectory' = trajectory
                              \o <<Entry(iteration, "evaluate", None, o.score, o.feedback),
                                   Entry(iteration, "success", None, o.score, NoFeedback)>>
            /\ Finish(trajectory', best_solution', best_score', total_tokens_used',
                      TRUE, loop_detected)
            /\ UNCHANGED <<current_solution, current_feedback, iteration>>
       ELSE /\ trajectory' = Append(trajectory,
                                    Entry(iteration, "evaluate", None, o.score, o.feedback))
            /\ current_solution' = solution
            /\ current_feedback' = o.feedback
            /\ UNCHANGED early_termination
            /\ IF LoopContinues(iteration)
               THEN /\ iteration' = iteration + 1
                    /\ pc' = "think"
                    /\ UNCHANGED result
               ELSE /\ Finish(trajectory', best_solution', best_score',
                              total_tokens_used', early_termination, loop_detected)
                    /\ UNCHANGED iteration
    /\ UNCHANGED <<trajectory_hashes, task, memories, solution, loop_detected,
                   thinkCalls, retrievals, retrieval_failed, cacheVars,
                   mattsVars, keyVars, bankVars, memVars>>
    /\ prev_hashes' = {}

\* The call is over (return result, or the raise has left the method): its
\* locals are gone, the agent keeps its token counter and hash set.
SolveTaskReturn ==
    /\ pc \in {"done", "raised"}
    /\ pc' = "idle"
    /\ task' = 0
    /\ memories' = 0
    /\ iteration' = 0
    /\ retrievals' = 0
    /\ retrieval_failed' = FALSE
    /\ prev_hashes' = {}
    /\ FreshLocals
    /\ UNCHANGED <<agentVars, cacheVars, mattsVars, keyVars, bankVars, memVars>>

LoopNext ==
    \/ \E len \in TaskLens : SolveTaskInvalid(len)
    \/ \E len \in TaskLens, given \in {NoMemoriesArg, 2}, use_memory \in BOOLEAN,
          retrieved \in {-1, 2} :
            SolveTaskStart(len, given, use_memory, retrieved)
    \/ \E o \in ThinkOutcomes : ThinkStep(o)
    \/ \E o \in EvalOutcomes : EvaluateStep(o)
    \/ SolveTaskReturn

SpecLoop == Init /\ [][LoopNext]_vars

\* ------------------------------------------------------------------------
\* CachedLLMClient
\* ------------------------------------------------------------------------
\* _generate_cache_key: SHA-256 of the serialized request; the request itself
\* stands for its digest
_generate_cache_key(msg, temp) == <<msg, temp>>

\* not (not self.enable_cache or temperature != 0.0), with enable_cache set
MutCacheableAlways(temp) == TRUE
Cacheable(temp) == temp = 0

\* _is_cache_valid at time t
MutIsCacheValidInclusive(timestamp, t) == t - timestamp <= Ttl
_is_cache_valid(timestamp, t) == t - timestamp < Ttl

\* len(self._cache) > self.max_cache_size
MutNeedsEvictLate(c) == Len(c) > MaxCacheSize + 1
NeedsEvict(c) == Len(c) > MaxCacheSize

\* _evict_oldest: popitem(last=False)
MutEvictNewest(c) == IF c = <<>> THEN c ELSE SubSeq(c, 1, Len(c) - 1)
_evict_oldest(c) == IF c = <<>> THEN c ELSE Tail(c)

\* _evict_expired at time t
_evict_expired(c, t) == SelectSeq(c, LAMBDA e : _is_cache_valid(e.timestamp, t))

CacheKeys(c) == {c[j].key : j \in 1..Len(c)}
KeySeq(c) == [j \in 1..Len(c) |-> c[j].key]
IndexOf(c, k) == CHOOSE j \in 1..Len(c) : c[j].key = k
Without(c, k) == SelectSeq(c, LAMBDA e : e.key # k)

\* self._cache.move_to_end(cache_key)
MutMoveToEndSkipped(c, k) == c
MoveToEnd(c, k) == Append(Without(c, k), c[IndexOf(c, k)])

\* self._cache[cache_key] = (result, current_time): a present key keeps its
\* place in the order, a new key goes to the end
MutSetItemAppends(c, k, r, t) == Append(c, [key |-> k, result |-> r, timestamp |-> t])
SetItem(c, k, r, t) ==
    IF k \in CacheKeys(c)
    THEN [c EXCEPT ![IndexOf(c, k)] = [key |-> k, result |-> r, timestamp |-> t]]
    ELSE Append(c, [key |-> k, result |-> r, timestamp |-> t])

\* the locked block that stores a fresh result (misses: the miss counter)
MutStoreWithoutEviction(c, k, r, t, misses) == SetItem(c, k, r, t)
Store(c, k, r, t, misses) ==
    LET c1 == SetItem(c, k, r, t)
        c2 == IF NeedsEvict(c1) THEN _evict_oldest(c1) ELSE c1
    IN  IF misses % SweepEvery = 0 THEN _evict_expired(c2, t) ELSE c2

AgentUntouched == UNCHANGED <<agentVars, loopVars, mattsVars, keyVars, bankVars, memVars>>

\* the order of last access after key k was accessed, and after the cache
\* became c
Touch(r, k) == Append(SelectSeq(r, LAMBDA x : x # k), k)
Kept(r, c) == SelectSeq(r, LAMBDA x : x \in CacheKeys(c))

\* with self._cache_lock: the block is entered when the lock is free and
\* leaves it free
WithCacheLock == cache_lock = 0 /\ cache_lock' = 0

\* The holder of the lock once caller p has left the block that counts the
\* miss: the generator call that follows is made outside the block.
MutLockHeldDuringCall(p) == p
LockAfterCountMiss(p) == 0

\* create with a request that is not cached: count it under the lock
Bypass(p, msg, temp) ==
    /\ cache_bypassed' = cache_bypassed + 1
    /\ cpc' = [cpc EXCEPT ![p] = "bypass_call"]
    /\ creq' = [creq EXCEPT ![p] = [msg |-> msg, temp |-> temp]]
    /\ cres' = [cres EXCEPT ![p] = NoResponse]
    /\ path' = [path EXCEPT ![p] = "bypass"]
    /\ UNCHANGED <<cache, cache_hits, cache_misses, scen, recency>>

\* create with a cacheable request: key and the locked lookup block
Lookup(p, msg, temp) ==
    /\ LET k == _generate_cache_key(msg, temp) IN
       IF k \in CacheKeys(cache)
       THEN IF _is_cache_valid(cache[IndexOf(cache, k)].timestamp, now)
            THEN /\ cache' = MoveToEnd(cache, k)
                 /\ cache_hits' = cache_hits + 1
                 /\ cpc' = [cpc EXCEPT ![p] = "returned"]
                 /\ creq' = [creq EXCEPT ![p] = NoRequest]
                 /\ cres' = [cres EXCEPT ![p] = cache[IndexOf(cache, k)].result]
                 /\ path' = [path EXCEPT ![p] = "hit"]
                 /\ scen' = BrokenScenario
                 /\ recency' = Touch(recency, k)
            ELSE /\ cache' = Without(cache, k)
                 /\ cpc' = [cpc EXCEPT ![p] = "missed"]
                 /\ creq' = [creq EXCEPT ![p] = [msg |-> msg, temp |-> temp]]
                 /\ cres' = [cres EXCEPT ![p] = NoResponse]
                 /\ path' = [path EXCEPT ![p] = "expired"]
                 /\ scen' = BrokenScenario
                 /\ recency' = Kept(recency, cache')
                 /\ UNCHANGED cache_hits
       ELSE /\ cpc' = [cpc EXCEPT ![p] = "missed"]
            /\ creq' = [creq EXCEPT ![p] = [msg |-> msg, temp |-> temp]]
            /\ cres' = [cres EXCEPT ![p] = NoResponse]
            /\ path' = [path EXCEPT ![p] = "absent"]
            /\ UNCHANGED <<cache, cache_hits, scen, recency>>
    /\ UNCHANGED <<cache_misses, cache_bypassed>>

\* json.dumps(cache_data, sort_keys=True) raises TypeError for a request it
\* cannot serialize
KeyRaises(msg) == msg = BadMsg

\* create with a cacheable request whose key cannot be computed: no handler
\* stands between _generate_cache_key and the caller of create
KeyFailure(p) ==
    /\ cpc' = [cpc EXCEPT ![p] = "raised"]
    /\ creq' = [creq EXCEPT ![p] = NoRequest]
    /\ cres' = [cres EXCEPT ![p] = Raised]
    /\ path' = [path EXCEPT ![p] = "keyerror"]
    /\ UNCHANGED <<cache, cache_hits, cache_misses, cache_bypassed, scen, recency>>

\* create up to the end of its first locked block; lim bounds the calls begun
Create(p, msg, temp, lim) ==
    /\ cpc[p] \in {"idle", "returned", "raised"}
    /\ nCreate < lim
    /\ WithCacheLock
    /\ nCreate' = nCreate + 1
    /\ calls' = [calls EXCEPT ![p] = 0]
    /\ IF ~Cacheable(temp) THEN Bypass(p, msg, temp)
       ELSE IF KeyRaises(msg) THEN KeyFailure(p)
       ELSE Lookup(p, msg, temp)
    /\ UNCHANGED <<now, stats, nCalls, due>>
    /\ AgentUntouched

\* the locked block that counts the miss
CountMiss(p) ==
    /\ cpc[p] = "missed"
    /\ cache_lock = 0
    /\ cache_lock' = LockAfterCountMiss(p)
    /\ cache_misses' = cache_misses + 1
    /\ due' = [due EXCEPT ![p] = (cache_misses + 1) % SweepEvery = 0]
    /\ cpc' = [cpc EXCEPT ![p] = "call"]
    /\ UNCHANGED <<cache, cache_hits, cache_bypassed, now, creq, cres, calls,
                   path, nCreate, scen, stats, recency, nCalls>>
    /\ AgentUntouched

\* self.client.create raises: nothing catches it inside create
MutCallRaisesNever(r) == FALSE
CallRaises(r) == r = Raised

\* self.client.create outside the lock; r is the response, Raised a failure
ApiCall(p, r) ==
    /\ cpc[p] \in {"call", "bypass_call"}
    /\ calls' = [calls EXCEPT ![p] = calls[p] + 1]
    /\ nCalls' = nCalls + 1
    /\ cres' = [cres EXCEPT ![p] = r]
    /\ IF CallRaises(r)
       THEN /\ cpc' = [cpc EXCEPT ![p] = "raised"]
            /\ creq' = [creq EXCEPT ![p] = NoRequest]
            /\ due' = [due EXCEPT ![p] = FALSE]
       ELSE IF cpc[p] = "bypass_call"
            THEN /\ cpc' = [cpc EXCEPT ![p] = "returned"]
                 /\ creq' = [creq EXCEPT ![p] = NoRequest]
                 /\ UNCHANGED due
            ELSE /\ cpc' = [cpc EXCEPT ![p] = "insert"]
                 /\ UNCHANGED <<creq, due>>
    /\ UNCHANGED <<cache, cache_hits, cache_misses, cache_bypassed, now,
                   path, nCreate, scen, cache_lock, stats, recency>>
    /\ AgentUntouched

\* the scenario after the key k is stored at time t
ScenarioAfterStore(k, t) ==
    IF /\ scen.pure
       /\ k \notin CacheKeys(cache)
       /\ \A j \in 1..Len(scen.log) : scen.log[j] # k
       /\ Len(scen.log) <= MaxCacheSize
    THEN [pure |-> TRUE, log |-> Append(scen.log, k),
          first |-> IF scen.log = <<>> THEN t ELSE scen.first, last |-> t]
    ELSE BrokenScenario

\* the locked block that stores the fresh result, evicts and sweeps
Insert(p) ==
    /\ cpc[p] = "insert"
    /\ WithCacheLock
    /\ LET k == _generate_cache_key(creq[p].msg, creq[p].temp) IN
       /\ cache' = Store(cache, k, cres[p], now, cache_misses)
       /\ scen' = ScenarioAfterStore(k, now)
       /\ recency' = Kept(Touch(recency, k), cache')
    /\ cpc' = [cpc EXCEPT ![p] = "returned"]
    /\ creq' = [creq EXCEPT ![p] = NoRequest]
    /\ due' = [due EXCEPT ![p] = FALSE]
    /\ UNCHANGED <<cache_hits, cache_misses, cache_bypassed, now, cres, calls,
                   path, nCreate, stats, nCalls>>
    /\ AgentUntouched

\* clear_cache
ClearCache ==
    /\ cache # <<>>
    /\ WithCacheLock
    /\ cache' = <<>>
    /\ scen' = FreshScenario
    /\ recency' = <<>>
    /\ UNCHANGED <<cache_hits, cache_misses, cache_bypassed, now, cpc, creq, cres,
                   calls, path, nCreate, stats, nCalls, due>>
    /\ AgentUntouched

\* the clock advances
Tick ==
    /\ now < MaxTime
    /\ now' = now + 1
    /\ UNCHANGED <<cache, cache_hits, cache_misses, cache_bypassed, cpc, creq, cres,
                   calls, path, nCreate, scen, cache_lock, stats, recency, nCalls, due>>
    /\ AgentUntouched

\* hit_rate: the hits over the cacheable requests, 0.0 when there are none
HitRate(hits, misses) ==
    IF hits + misses > 0 THEN Ratio(hits, hits + misses) ELSE Ratio(0, 1)

\* cost_savings: the hits over all requests, 0.0 when there are none
CostSavings(hits, total_requests) ==
    IF total_requests > 0 THEN Ratio(hits, total_requests) ELSE Ratio(0, 1)

\* get_statistics: the counters read under the lock
GetStatistics ==
    /\ WithCacheLock
    /\ stats' = [cache_hits |-> cache_hits, cache_misses |-> cache_misses,
                 cache_bypassed |-> cache_bypassed,
                 total_requests |-> cache_hits + cache_misses + cache_bypassed,
                 hit_rate |-> HitRate(cache_hits, cache_misses),
                 cost_savings_estimate |->
                     CostSavings(cache_hits, cache_hits + cache_misses + cache_bypassed)]
    /\ UNCHANGED <<cache, cache_hits, cache_misses, cache_bypassed, now, cpc, creq,
                   cres, calls, path, nCreate, scen, recency, nCalls, due>>
    /\ AgentUntouched

CacheNext ==
    \/ \E p \in Callers, msg \in Msgs, temp \in Temperatures :
         Create(p, msg, temp, MaxCreate)
    \/ \E p \in Callers : CountMiss(p)
    \/ \E p \in Callers, r \in Responses \cup {Raised} : ApiCall(p, r)
    \/ \E p \in Callers : Insert(p)
    \/ ClearCache
    \/ Tick

SpecCache == Init /\ [][CacheNext]_vars

\* create by the single caller of the long-running specification
CreateSeq ==
    \E msg \in Msgs, temp \in Temperatures :
         /\ temp # 0 => cache_bypassed < MaxBypassSeq
         /\ (temp = 0 /\ <<msg, temp>> \in CacheKeys(cache)) => cache_hits < MaxHitsSeq
         /\ Create(1, msg, temp, MaxCreateSeq)

\* one caller, enough requests to reach the periodic sweep
CacheSeqNext ==
    \/ CreateSeq
    \/ CountMiss(1)
    \/ \E r \in Responses \cup {Raised} : ApiCall(1, r)
    \/ Insert(1)
    \/ ClearCache
    \/ Tick

SpecCacheSeq == Init /\ [][CacheSeqNext]_vars

\* concurrent callers and readers of the statistics, few requests
CacheLockNext ==
    \/ \E p \in Callers, msg \in Msgs \cup {BadMsg}, temp \in Temperatures :
         Create(p, msg, temp, MaxCreateLock)
    \/ \E p \in Callers : CountMiss(p)
    \/ \E p \in Callers, r \in Responses \cup {Raised} : ApiCall(p, r)
    \/ \E p \in Callers : Insert(p)
    \/ GetStatistics

SpecCacheLock == Init /\ [][CacheLockNext]_vars

\* create of the sweep specification: cacheable requests only
CreateSweep ==
    \E p \in Callers, msg \in 1..NumMsgsSweep :
         /\ <<msg, 0>> \in CacheKeys(cache) => cache_hits < MaxHitsSeq
         /\ Create(p, msg, 0, MaxCreateSweep)

\* concurrent callers, enough requests to reach the periodic sweep
CacheSweepNext ==
    \/ CreateSweep
    \/ \E p \in Callers : CountMiss(p)
    \/ \E p \in Callers, r \in {1, Raised} : ApiCall(p, r)
    \/ \E p \in Callers : Insert(p)
    \/ Tick

SpecCacheSweep == Init /\ [][CacheSweepNext]_vars

\* ------------------------------------------------------------------------
\* CachedLLMClient._generate_cache_key
\* ------------------------------------------------------------------------
Models == 1..NumModels
TokenLimits == {None, 100}
Efforts == {None, 1}
KwNames == 1..NumKwNames
KwValues == 1..NumKwValues

\* **kwargs: the extra parameters in the order the caller wrote them, each
\* name at most once
KwArgs ==
    {kw \in UNION {[1..n -> KwNames \X KwValues] : n \in 0..NumKwNames} :
        \A i, j \in 1..Len(kw) : i # j => kw[i][1] # kw[j][1]}

KeyRequests ==
    [model : Models, messages : Msgs, temperature : Temperatures,
     max_tokens : TokenLimits, max_output_tokens : TokenLimits,
     reasoning_effort : Efforts, kwargs : KwArgs]

\* sorted(kwargs.items()): the (name, value) pairs in the order of the names
RECURSIVE InsertItem(_, _)
InsertItem(sorted, item) ==
    IF sorted = <<>> THEN <<item>>
    ELSE IF item[1] < Head(sorted)[1] THEN <<item>> \o sorted
    ELSE <<Head(sorted)>> \o InsertItem(Tail(sorted), item)
RECURSIVE SortedItems(_)
MutItemsUnsorted(kw) == kw
SortedItems(kw) ==
    IF kw = <<>> THEN <<>>
    ELSE InsertItem(SortedItems(SubSeq(kw, 1, Len(kw) - 1)), kw[Len(kw)])

\* the cache_data dictionary
cache_data(r) ==
    [model |-> r.model, messages |-> r.messages, temperature |-> r.temperature,
     max_tokens |-> r.max_tokens, max_output_tokens |-> r.max_output_tokens,
     reasoning_effort |-> r.reasoning_effort, kwargs |-> SortedItems(r.kwargs)]

\* json.dumps(cache_data, sort_keys=True): the values in the order of their
\* keys: kwargs, max_output_tokens, max_tokens, messages, model,
\* reasoning_effort, temperature
cache_string(d) ==
    <<d.kwargs, d.max_output_tokens, d.max_tokens, d.messages, d.model,
      d.reasoning_effort, d.temperature>>

\* hashlib.sha256(...).hexdigest(): the string stands for its digest
cache_key(r) == cache_string(cache_data(r))

\* one call of _generate_cache_key
GenerateCacheKey(r) ==
    /\ kreq' = r
    /\ kkey' = cache_key(r)
    /\ UNCHANGED <<agentVars, loopVars, cacheVars, mattsVars, bankVars, memVars>>

KeyNext == \E r \in KeyRequests : GenerateCacheKey(r)

SpecKey == Init /\ [][KeyNext]_vars

\* ------------------------------------------------------------------------
\* ReasoningBank: the weights, compute_composite_score, retrieve_memories
\* Weights and scores are in hundredths (0.6 is 60); a quotient is a Ratio.
\* ------------------------------------------------------------------------
WeightValues == {0, 10, 11, 30, 60}
Abs(x) == IF x < 0 THEN -x ELSE x
Max(x, y) == IF x >= y THEN x ELSE y

\* math.isclose(total_weight, 1.0, rel_tol=0.01)
MutIsCloseExact(total_weight) == total_weight = 100
IsClose(total_weight) == Abs(total_weight - 100) * 100 <= Max(Abs(total_weight), 100)

\* ReasoningBank.__init__: the weights are stored and, when their sum is not
\* close to 1.0, each is divided by the sum; a sum of 0 raises
\* ZeroDivisionError
Construct(ws, wr, we) ==
    LET total_weight == ws + wr + we IN
    /\ bank.state = "none"
    /\ bank' = IF IsClose(total_weight)
               THEN [state |-> "ready", configured |-> <<ws, wr, we>>,
                     similarity_weight |-> Ratio(ws, 100),
                     recency_weight |-> Ratio(wr, 100),
                     error_weight |-> Ratio(we, 100)]
               ELSE IF total_weight = 0
               THEN [NoBank EXCEPT !.state = "raised", !.configured = <<ws, wr, we>>]
               ELSE [state |-> "ready", configured |-> <<ws, wr, we>>,
                     similarity_weight |-> Ratio(ws, total_weight),
                     recency_weight |-> Ratio(wr, total_weight),
                     error_weight |-> Ratio(we, total_weight)]
    /\ UNCHANGED <<agentVars, loopVars, cacheVars, mattsVars, keyVars, found, memVars>>

\* A MemoryItem as compute_composite_score reads it.  timestamp: "none" (no
\* trace_timestamp), "bad" (it cannot be parsed or subtracted), "time"; age:
\* the age of the trace in units of recency_decay_days.
MemoryItems ==
    [has_similarity : BOOLEAN, similarity_score : {-20, 0, 90},
     timestamp : {"none", "bad", "time"}, age : {-1, 1},
     error_context : BOOLEAN, composite_score : {None}, id : {1}]

\* math.exp(-x) in hundredths
ExpNeg(x) == CASE x = -1 -> 272 [] x = 0 -> 100 [] x = 1 -> 37 [] OTHER -> 0

\* similarity = memory.similarity_score or 0.5
Similarity(m) ==
    IF m.has_similarity /\ m.similarity_score # 0
    THEN m.similarity_score ELSE DefaultSimilarity

\* recency: 0.5 without a usable timestamp, else exp(-age_days / decay)
Recency(m) == IF m.timestamp = "time" THEN ExpNeg(m.age) ELSE DefaultRecency

\* max(0.0, min(1.0, composite))
MutClampSkipped(q) == q
Clamp01(q) ==
    IF q.num < 0 THEN Ratio(0, q.den)
    ELSE IF q.num > q.den THEN Ratio(q.den, q.den)
    ELSE q

\* compute_composite_score with the weights of bank b; the three weights
\* have the same denominator
compute_composite_score(b, m) ==
    Clamp01(Ratio(b.similarity_weight.num * Similarity(m)
                    + b.recency_weight.num * Recency(m)
                    + b.error_weight.num * (IF m.error_context THEN ErrorBoost ELSE 0),
                  b.similarity_weight.den * 100))

\* a direct call of compute_composite_score
ComputeCompositeScore(m) ==
    /\ bank.state = "ready"
    /\ found' = [NoRetrieval EXCEPT
                   !.state = "score",
                   !.memories = <<[m EXCEPT !.composite_score =
                                      compute_composite_score(bank, m)]>>]
    /\ UNCHANGED <<agentVars, loopVars, cacheVars, mattsVars, keyVars, bank, memVars>>

\* What the memory store finds for a query: records with the similarity it
\* computed from the distance (1 / (1 + distance)), each id once.
StoreRecords == [id : 1..NumMemories, error_context : BOOLEAN, similarity : {30, 90}]
StoreResults(n) ==
    {rs \in UNION {[1..len -> StoreRecords] : len \in 0..(2 * n)} :
        \A i, j \in 1..Len(rs) : i # j => rs[i].id # rs[j].id}

\* query_similar_memories builds the MemoryItemSchema it returns from the
\* record without the keys that start with "_": the similarity is left out
to_schema(rec) == [id |-> rec.id, error_context |-> rec.error_context]

\* MemoryItem.from_schema: the schema carries neither a similarity score nor a
\* trace timestamp
from_schema(schema) ==
    [has_similarity |-> FALSE, similarity_score |-> 0, timestamp |-> "none",
     age |-> 0, error_context |-> schema.error_context, composite_score |-> None,
     id |-> schema.id]

\* q1 > q2, for positive denominators
RatioGreater(q1, q2) == q1.num * q2.den > q2.num * q1.den

\* list.sort(key=composite_score, reverse=True): stable, largest first
RECURSIVE MutInsertByScoreUnstable(_, _)
MutInsertByScoreUnstable(sorted, m) ==
    IF sorted = <<>> THEN <<m>>
    ELSE IF ~RatioGreater(Head(sorted).composite_score, m.composite_score)
    THEN <<m>> \o sorted
    ELSE <<Head(sorted)>> \o MutInsertByScoreUnstable(Tail(sorted), m)
RECURSIVE InsertByScore(_, _)
InsertByScore(sorted, m) ==
    IF sorted = <<>> THEN <<m>>
    ELSE IF RatioGreater(m.composite_score, Head(sorted).composite_score)
    THEN <<m>> \o sorted
    ELSE <<Head(sorted)>> \o InsertByScore(Tail(sorted), m)
RECURSIVE SortByScore(_)
SortByScore(ms) ==
    IF ms = <<>> THEN <<>>
    ELSE InsertByScore(SortByScore(SubSeq(ms, 1, Len(ms) - 1)), ms[Len(ms)])

\* memories_with_scores[:n_results]
FirstN(ms, n) == SubSeq(ms, 1, IF Len(ms) < n THEN Len(ms) ELSE n)

\* the MemoryItem of a store record as retrieve_memories scores it
Scored(b, rec) ==
    [from_schema(to_schema(rec)) EXCEPT !.composite_score =
        compute_composite_score(b, from_schema(to_schema(rec)))]

\* retrieve_memories: 2 * n_results records are asked of the store, every
\* record it found gets its composite score, the records are ranked and the
\* first n_results returned
RetrieveMemories(records, n_results) ==
    /\ bank.state = "ready"
    /\ found' = [state |-> "ok",
                 memories |-> FirstN(SortByScore(
                     [j \in 1..Len(records) |-> Scored(bank, records[j])]), n_results),
                 candidates |-> records,
                 n_results |-> n_results,
                 requested |-> n_results * 2]
    /\ UNCHANGED <<agentVars, loopVars, cacheVars, mattsVars, keyVars, bank, memVars>>

\* retrieve_memories when the storage query raises: MemoryRetrievalError
RetrieveRaises ==
    /\ bank.state = "ready"
    /\ found' = [NoRetrieval EXCEPT !.state = "raised"]
    /\ UNCHANGED <<agentVars, loopVars, cacheVars, mattsVars, keyVars, bank, memVars>>

BankNext ==
    \/ \E ws, wr, we \in WeightValues : Construct(ws, wr, we)
    \/ \E m \in MemoryItems : ComputeCompositeScore(m)
    \/ \E n \in 1..MaxResults : \E records \in StoreResults(n) :
          RetrieveMemories(records, n)
    \/ RetrieveRaises

SpecBank == Init /\ [][BankNext]_vars

\* ------------------------------------------------------------------------
\* MemoryCache
\* ------------------------------------------------------------------------
MemIds(c) == {c[j].id : j \in 1..Len(c)}
MemIndex(c, id) == CHOOSE j \in 1..Len(c) : c[j].id = id
MemWithout(c, id) == SelectSeq(c, LAMBDA e : e.id # id)

\* self.cache.move_to_end(memory_id)
MutMemMoveToEndSkipped(c, id) == c
MemMoveToEnd(c, id) == Append(MemWithout(c, id), c[MemIndex(c, id)])

\* current_time - cached.cache_time > self.ttl_seconds
MemExpired(cache_time, t) == t - cache_time > MemTtl

\* KeyError: the exception popitem raises on an empty OrderedDict
KeyErrorRaised == -1

MemUnchanged == UNCHANGED <<agentVars, loopVars, cacheVars, mattsVars, keyVars, bankVars>>

\* MemoryCache.__init__
MemoryCacheInit(max_size) ==
    /\ mc_max_size = NotConstructed
    /\ mc_max_size' = max_size
    /\ mc_cache' = <<>>
    /\ mc_hits' = 0
    /\ mc_misses' = 0
    /\ mc_evictions' = 0
    /\ UNCHANGED <<mc_ret, mc_use, mc_ops>>
    /\ MemUnchanged

\* one more call on the constructed cache
MemCall ==
    /\ mc_max_size # NotConstructed
    /\ mc_ops < MaxMemOps
    /\ mc_ops' = mc_ops + 1

\* MemoryCache.get
get(memory_id) ==
    /\ MemCall
    /\ IF memory_id \notin MemIds(mc_cache)
       THEN /\ mc_misses' = mc_misses + 1
            /\ mc_ret' = None
            /\ UNCHANGED <<mc_cache, mc_hits, mc_use>>
       ELSE LET cached == mc_cache[MemIndex(mc_cache, memory_id)] IN
            IF MemExpired(cached.cache_time, now)
            THEN /\ mc_cache' = MemWithout(mc_cache, memory_id)
                 /\ mc_misses' = mc_misses + 1
                 /\ mc_ret' = None
                 /\ mc_use' = SelectSeq(mc_use, LAMBDA x : x # memory_id)
                 /\ UNCHANGED mc_hits
            ELSE /\ mc_hits' = mc_hits + 1
                 /\ mc_cache' = MemMoveToEnd(
                        [mc_cache EXCEPT ![MemIndex(mc_cache, memory_id)] =
                            [cached EXCEPT !.access_count = cached.access_count + 1,
                                           !.last_access = now]],
                        memory_id)
                 /\ mc_ret' = cached.memory_data
                 /\ mc_use' = Touch(mc_use, memory_id)
                 /\ UNCHANGED mc_misses
    /\ UNCHANGED <<mc_max_size, mc_evictions>>
    /\ MemUnchanged

\* MemoryCache.put
put(memory_id, memory_data) ==
    /\ MemCall
    /\ IF memory_id \in MemIds(mc_cache)
       THEN /\ mc_cache' = MemMoveToEnd(
                   [mc_cache EXCEPT ![MemIndex(mc_cache, memory_id)] =
                       [@ EXCEPT !.memory_data = memory_data,
                                 !.last_access = now,
                                 !.cache_time = now]],
                   memory_id)
            /\ mc_ret' = None
            /\ mc_use' = Touch(mc_use, memory_id)
            /\ UNCHANGED mc_evictions
       ELSE IF Len(mc_cache) >= mc_max_size /\ mc_cache = <<>>
       THEN \* popitem on the empty cache raises KeyError
            /\ mc_ret' = KeyErrorRaised
            /\ UNCHANGED <<mc_cache, mc_evictions, mc_use>>
       ELSE LET evicts == Len(mc_cache) >= mc_max_size
                kept == IF evicts THEN Tail(mc_cache) ELSE mc_cache
            IN
            /\ mc_evictions' = mc_evictions + (IF evicts THEN 1 ELSE 0)
            /\ mc_cache' = Append(kept,
                   [id |-> memory_id, memory_data |-> memory_data, access_count |-> 1,
                    last_access |-> now, cache_time |-> now])
            /\ mc_ret' = None
            /\ mc_use' = Touch(SelectSeq(mc_use, LAMBDA x : x \in MemIds(kept)), memory_id)
    /\ UNCHANGED <<mc_max_size, mc_hits, mc_misses>>
    /\ MemUnchanged

\* MemoryCache.invalidate
invalidate(memory_id) ==
    /\ MemCall
    /\ mc_cache' = MemWithout(mc_cache, memory_id)
    /\ mc_use' = SelectSeq(mc_use, LAMBDA x : x # memory_id)
    /\ mc_ret' = None
    /\ UNCHANGED <<mc_max_size, mc_hits, mc_misses, mc_evictions>>
    /\ MemUnchanged

\* MemoryCache.clear
clear ==
    /\ MemCall
    /\ mc_cache' = <<>>
    /\ mc_use' = <<>>
    /\ mc_ret' = None
    /\ UNCHANGED <<mc_max_size, mc_hits, mc_misses, mc_evictions>>
    /\ MemUnchanged

MemCacheNext ==
    \/ \E max_size \in 0..MaxMemCacheSize : MemoryCacheInit(max_size)
    \/ \E memory_id \in 1..NumMemIds : get(memory_id)
    \/ \E memory_id \in 1..NumMemIds, memory_data \in 1..NumMemData :
          put(memory_id, memory_data)
    \/ \E memory_id \in 1..NumMemIds : invalidate(memory_id)
    \/ clear
    \/ Tick

SpecMemCache == Init /\ [][MemCacheNext]_vars

\* ------------------------------------------------------------------------
\* solve_with_matts
\* ------------------------------------------------------------------------
Modes == {"parallel", "sequential", "best_of_n"}

\* if mode not in ["parallel", "sequential"]: mode = "parallel"
MutNormalModeSequential(mode) == IF mode = "parallel" THEN mode ELSE "sequential"
NormalMode(mode) == IF mode \in {"parallel", "sequential"} THEN mode ELSE "parallel"

\* outcomes of the generator calls of a candidate or of the refine pass
MattsThinkOutcomes ==
    {[kind |-> "ok", solution |-> sol, tokens |-> sol] : sol \in {1, 2}}
    \cup {[kind |-> "error", solution |-> 0, tokens |-> 0]}
MattsEvalOutcomes ==
    {[kind |-> "scored", score |-> _parse_evaluation_response(TRUE, r),
      feedback |-> "fb", tokens |-> 3] : r \in {60, 85}}
    \cup {[kind |-> "unparsed", score |-> _parse_evaluation_response(FALSE, 0),
           feedback |-> "raw", tokens |-> 3]}
    \cup {[kind |-> "failed", score |-> DefaultScore,
           feedback |-> "Evaluation failed, continuing with default score", tokens |-> 0]}

MEntry(a, cid, o, s) == [action |-> a, candidate_id |-> cid, output |-> o, score |-> s]

\* MaTTSSolutionCandidate built from a think and an evaluate outcome
Candidate(cid, to, eo) ==
    [solution |-> to.solution, score |-> eo.score, feedback |-> eo.feedback,
     tokens_used |-> to.tokens + eo.tokens, candidate_id |-> cid]

\* what a parallel attempt hands back when its think step failed
NoneResult(cid) == [NoCandidate EXCEPT !.candidate_id = cid]
MutIsCandidateNever(r) == FALSE
IsCandidate(r) == r.solution # None

\* max(candidates, key=lambda c: c.score): the first element of the list
\* with the largest score
MutLastMaxByScore(cs) ==
    cs[CHOOSE j \in 1..Len(cs) :
         /\ \A i \in 1..Len(cs) : cs[i].score <= cs[j].score
         /\ \A i \in (j + 1)..Len(cs) : cs[i].score < cs[j].score]
MaxByScore(cs) ==
    cs[CHOOSE j \in 1..Len(cs) :
         /\ \A i \in 1..Len(cs) : cs[i].score <= cs[j].score
         /\ \A i \in 1..(j - 1) : cs[i].score < cs[j].score]

\* if refined_score > best_candidate.score
MutRefinedBetterOrEqual(refined_score, score) == refined_score >= score
RefinedBetter(refined_score, score) == refined_score > score

\* if refine_best and best_candidate.score < self.success_threshold
Refines(refine_best, score) == refine_best /\ score < SuccessThreshold

\* The candidates still to be generated after candidate cid ended; a failed
\* candidate (failed = TRUE) is logged and the others go on.
MutRemainingAbortsOnFailure(pending, cid, failed) == IF failed THEN {} ELSE pending \ {cid}
Remaining(pending, cid, failed) == pending \ {cid}

MutSumTokensNone(cs) == 0
RECURSIVE SumTokens(_)
SumTokens(cs) == IF cs = <<>> THEN 0 ELSE Head(cs).tokens_used + SumTokens(Tail(cs))

CandidateEntries(cs) ==
    [j \in 1..Len(cs) |-> MEntry("matts_candidate", cs[j].candidate_id,
                                 cs[j].solution, cs[j].score)]

MinOf(S) == CHOOSE x \in S : \A y \in S : x <= y

\* The sequential loop counts a candidate (tokens, list, trajectory) as soon
\* as it is generated; a parallel worker only hands its result back.
MutCountsInlineAlways(gen_path) == TRUE
CountsInline(gen_path) == gen_path \in {"sequential", "fallback"}

\* the candidates _generate_sequential_solutions generates when it is called
\* as the fallback: range(1, k + 1), whatever the parallel attempt had done
MutFallbackPendingRest(k, pending) == pending
FallbackPending(k, pending) == 1..k

MattsRest == UNCHANGED <<loopVars, cacheVars, keyVars, bankVars, memVars>>

NoCalls == [think |-> 0, evaluate |-> 0]

MattsFreshLocals ==
    /\ mpath' = "none"
    /\ mrefine' = FALSE
    /\ mmemories' = 0
    /\ mpending' = {}
    /\ mresults' = <<>>
    /\ candidates' = <<>>
    /\ best_candidate' = NoCandidate
    /\ refined_solution' = None
    /\ mtrajectory' = <<>>
    /\ mresult' = NoResult
    /\ mretrievals' = 0
    /\ mprompts' = [c \in 0..MaxK |-> NoPrompt]
    /\ mgencalls' = NoCalls
    /\ mrefcalls' = NoCalls
    /\ mfailed' = {}
    /\ mgenfail' = FALSE
    /\ mmode' = "none"
    /\ mretrieval_failed' = FALSE
    /\ mreftokens' = 0

\* solve_with_matts raises InvalidTaskError for a short task or k < 1
MattsInvalidWith(len, k) ==
    /\ ~ValidTask(len) \/ k < 1
    /\ mpc' = "raised"
    /\ mtask' = len
    /\ mk' = k
    /\ MattsFreshLocals
    /\ UNCHANGED agentVars
    /\ MattsRest

\* solve_with_matts up to the generation of the candidates.
\* in_loop: asyncio.get_running_loop() finds a running event loop.
MattsStartWith(len, k, mode, refine, given, use_memory, retrieved, in_loop) ==
    /\ ValidTask(len)
    /\ k >= 1
    /\ trajectory_hashes' = {}
    /\ total_tokens_used' = 0
    /\ mtask' = len
    /\ mk' = k
    /\ mrefine' = refine
    /\ mpath' = IF NormalMode(mode) = "sequential" THEN "sequential"
                ELSE IF in_loop THEN "threads" ELSE "gather"
    /\ mmode' = mode
    /\ mretrievals' = IF Retrieves(given, use_memory) THEN 1 ELSE 0
    /\ mretrieval_failed' = (Retrieves(given, use_memory) /\ retrieved < 0)
    /\ mmemories' = MemoriesFor(given, use_memory, retrieved)
    /\ mreftokens' = 0
    /\ mpending' = 1..k
    /\ mresults' = <<>>
    /\ candidates' = <<>>
    /\ best_candidate' = NoCandidate
    /\ refined_solution' = None
    /\ mtrajectory' = <<MEntry("matts_start", 0, None, -1)>>
    /\ mresult' = NoResult
    /\ mprompts' = [c \in 0..MaxK |-> NoPrompt]
    /\ mgencalls' = NoCalls
    /\ mrefcalls' = NoCalls
    /\ mfailed' = {}
    /\ mgenfail' = FALSE
    /\ mpc' = "generate"
    /\ MattsRest

MattsInvalid ==
    /\ mpc = "idle"
    /\ \E len \in TaskLens, k \in 0..MaxK : MattsInvalidWith(len, k)

MattsStart ==
    /\ mpc = "idle"
    /\ \E len \in TaskLens, k \in 0..MaxK, mode \in Modes, refine \in BOOLEAN,
          given \in {NoMemoriesArg, 2}, use_memory \in BOOLEAN,
          retrieved \in {-1, 2}, in_loop \in BOOLEAN :
            MattsStartWith(len, k, mode, refine, given, use_memory, retrieved, in_loop)

\* One candidate: _think_step(iteration=candidate_id, previous_solution=None,
\* feedback=None) and _evaluate_step, inside try/except.  The prompt is built
\* before the generator is called; to and eo are the outcomes of the two
\* generator calls.  The sequential loop and asyncio.gather take the
\* candidates in id order; the pool's as_completed hands them back in the
\* order they finish.
GenerateCandidateWith(cid, to, eo) ==
    LET no_prompt == PromptFails(cid, None, NoFeedback)
        ok == ~no_prompt /\ to.kind = "ok"
    IN
    /\ cid \in mpending
    /\ mpath # "threads" => cid = MinOf(mpending)
    /\ mpending' = Remaining(mpending, cid, ~ok)
    /\ mprompts' = IF no_prompt THEN mprompts
                   ELSE [mprompts EXCEPT ![cid] = ThinkPrompt(cid, None, NoFeedback)]
    /\ mgencalls' = [think |-> mgencalls.think + (IF no_prompt THEN 0 ELSE 1),
                     evaluate |-> mgencalls.evaluate + (IF ok THEN 1 ELSE 0)]
    /\ mgenfail' = (mgenfail \/ (~no_prompt /\ to.kind = "error")
                             \/ (ok /\ eo.kind = "failed"))
    /\ mfailed' = IF ok THEN mfailed ELSE mfailed \cup {cid}
    /\ IF CountsInline(mpath)
       THEN /\ IF ok
               THEN /\ total_tokens_used' = total_tokens_used + to.tokens + eo.tokens
                    /\ candidates' = Append(candidates, Candidate(cid, to, eo))
                    /\ mtrajectory' = Append(mtrajectory,
                          MEntry("matts_candidate", cid, to.solution, eo.score))
               ELSE /\ mtrajectory' = Append(mtrajectory,
                          MEntry("matts_candidate_error", cid, None, -1))
                    /\ UNCHANGED <<total_tokens_used, candidates>>
            /\ UNCHANGED mresults
       ELSE /\ mresults' = Append(mresults,
                  IF ok THEN Candidate(cid, to, eo) ELSE NoneResult(cid))
            /\ UNCHANGED <<total_tokens_used, candidates, mtrajectory>>
    /\ UNCHANGED <<trajectory_hashes, mpc, mtask, mk, mpath, mrefine, mmemories,
                   mretrievals, best_candidate, refined_solution, mresult, mrefcalls,
                   mmode, mretrieval_failed, mreftokens>>
    /\ MattsRest

GenerateCandidate ==
    /\ mpc = "generate"
    /\ \E cid \in mpending, to \in MattsThinkOutcomes, eo \in MattsEvalOutcomes :
          GenerateCandidateWith(cid, to, eo)

\* The parallel generation fails as a whole: fall back to
\* _generate_sequential_solutions for all k candidates.
ParallelFails ==
    /\ mpc = "generate"
    /\ mpath \in {"gather", "threads"}
    /\ mpath' = "fallback"
    /\ mpending' = FallbackPending(mk, mpending)
    /\ mresults' = <<>>
    /\ mfailed' = {}
    /\ UNCHANGED <<agentVars, mpc, mtask, mk, mrefine, mmemories, mretrievals,
                   candidates, best_candidate, refined_solution, mtrajectory, mresult,
                   mprompts, mgencalls, mrefcalls, mgenfail, mmode,
                   mretrieval_failed, mreftokens>>
    /\ MattsRest

MattsResult(sol, score, n, tokens) ==
    [kind |-> "result", solution |-> sol, score |-> score, iterations |-> n,
     total_tokens |-> tokens, early_termination |-> score >= SuccessThreshold,
     loop_detected |-> FALSE]

\* The end of the generation: the parallel results are filtered and counted,
\* then the best candidate is selected.
SelectBest ==
    /\ mpc = "generate"
    /\ mpending = {}
    /\ LET parallel == mpath \in {"gather", "threads"}
           cs == IF parallel THEN SelectSeq(mresults, IsCandidate) ELSE candidates
           tokens == IF parallel THEN total_tokens_used + SumTokens(cs)
                     ELSE total_tokens_used
           traj == IF parallel THEN mtrajectory \o CandidateEntries(cs) ELSE mtrajectory
       IN
       /\ candidates' = cs
       /\ total_tokens_used' = tokens
       /\ IF cs = <<>>
          THEN /\ mtrajectory' = traj
               /\ best_candidate' = NoCandidate
               /\ mresult' = [MattsResult(FailedCandidates, 0, 0, tokens)
                                EXCEPT !.early_termination = FALSE]
               /\ mpc' = "done"
          ELSE /\ best_candidate' = MaxByScore(cs)
               /\ mtrajectory' = Append(traj,
                     MEntry("matts_select_best", best_candidate'.candidate_id,
                            None, best_candidate'.score))
               /\ IF Refines(mrefine, best_candidate'.score)
                  THEN /\ mpc' = "refine_think"
                       /\ UNCHANGED mresult
                  ELSE /\ mpc' = "done"
                       /\ mresult' = MattsResult(best_candidate'.solution,
                                        best_candidate'.score, Len(cs), tokens)
    /\ UNCHANGED <<trajectory_hashes, mtask, mk, mpath, mrefine, mmemories, mretrievals,
                   mpending, mresults, refined_solution, mprompts, mgencalls,
                   mrefcalls, mfailed, mgenfail, mmode, mretrieval_failed, mreftokens>>
    /\ MattsRest

\* The think step of the refine pass: _think_step(iteration=1,
\* previous_solution=best_candidate.solution, feedback=best_candidate.feedback)
RefineThink(to) ==
    /\ mpc = "refine_think"
    /\ IF PromptFails(1, best_candidate.solution, best_candidate.feedback)
       THEN /\ UNCHANGED <<mprompts, mrefcalls, mgenfail>>
       ELSE /\ mprompts' = [mprompts EXCEPT ![0] =
                  ThinkPrompt(1, best_candidate.solution, best_candidate.feedback)]
            /\ mrefcalls' = [mrefcalls EXCEPT !.think = @ + 1]
            /\ mgenfail' = (mgenfail \/ to.kind = "error")
    /\ IF to.kind = "ok" /\ ~PromptFails(1, best_candidate.solution, best_candidate.feedback)
       THEN /\ refined_solution' = to.solution
            /\ total_tokens_used' = total_tokens_used + to.tokens
            /\ mreftokens' = mreftokens + to.tokens
            /\ mpc' = "refine_eval"
            /\ UNCHANGED <<mtrajectory, mresult>>
       ELSE /\ mtrajectory' = Append(mtrajectory, MEntry("matts_refine_error", 0, None, -1))
            /\ mresult' = MattsResult(best_candidate.solution, best_candidate.score,
                                      Len(candidates), total_tokens_used)
            /\ mpc' = "done"
            /\ UNCHANGED <<refined_solution, total_tokens_used, mreftokens>>
    /\ UNCHANGED <<trajectory_hashes, mtask, mk, mpath, mrefine, mmemories, mretrievals,
                   mpending, mresults, candidates, best_candidate, mgencalls, mfailed,
                   mmode, mretrieval_failed>>
    /\ MattsRest

\* the evaluate step of the refine pass and the final result
RefineEval(eo) ==
    /\ mpc = "refine_eval"
    /\ total_tokens_used' = total_tokens_used + eo.tokens
    /\ mreftokens' = mreftokens + eo.tokens
    /\ mrefcalls' = [mrefcalls EXCEPT !.evaluate = @ + 1]
    /\ mgenfail' = (mgenfail \/ eo.kind = "failed")
    /\ mtrajectory' = Append(mtrajectory,
                             MEntry("matts_refine", 0, refined_solution, eo.score))
    /\ mresult' = IF RefinedBetter(eo.score, best_candidate.score)
                  THEN MattsResult(refined_solution, eo.score, Len(candidates),
                                   total_tokens_used')
                  ELSE MattsResult(best_candidate.solution, best_candidate.score,
                                   Len(candidates), total_tokens_used')
    /\ mpc' = "done"
    /\ UNCHANGED <<trajectory_hashes, mtask, mk, mpath, mrefine, mmemories, mretrievals,
                   mpending, mresults, candidates, best_candidate, refined_solution,
                   mprompts, mgencalls, mfailed, mmode, mretrieval_failed>>
    /\ MattsRest

\* The call is over (return result, or the raise has left the method): its
\* locals are gone, the agent keeps its token counter and hash set.
MattsReturn ==
    /\ mpc \in {"done", "raised"}
    /\ mpc' = "idle"
    /\ mtask' = 0
    /\ mk' = 0
    /\ MattsFreshLocals
    /\ UNCHANGED agentVars
    /\ MattsRest

MattsNext ==
    \/ MattsInvalid
    \/ MattsStart
    \/ GenerateCandidate
    \/ ParallelFails
    \/ SelectBest
    \/ \E to \in MattsThinkOutcomes : RefineThink(to)
    \/ \E eo \in MattsEvalOutcomes : RefineEval(eo)
    \/ MattsReturn

SpecMatts == Init /\ [][MattsNext]_vars

\* ------------------------------------------------------------------------
\* One agent serving solve_task and solve_with_matts calls, one at a time
\* ------------------------------------------------------------------------
AgentNext ==
    \/ mpc = "idle" /\ LoopNext
    \/ pc = "idle" /\ MattsNext

SpecAgent == Init /\ [][AgentNext]_vars

\* ------------------------------------------------------------------------
\* Properties of CachedLLMClient
\* ------------------------------------------------------------------------
AtRest(p) == cpc[p] \in {"idle", "returned", "raised"}
EntryOf(c, k) == c[CHOOSE j \in 1..Len(c) : c[j].key = k]
Others(c, k) == SelectSeq(c, LAMBDA e : e.key # k)
\* caller p begins create(msg, temp) in this step
Begins(p, msg, temp) ==
    /\ AtRest(p)
    /\ nCreate' = nCreate + 1
    /\ \/ Create(p, msg, temp, MaxCreate)
       \/ Create(p, msg, temp, MaxCreateSeq)

\* C5: the cache never holds more than MaxCacheSize entries, whatever the
\* interleaving of create and clear_cache calls.
C5_CacheWithinCapacity == Len(cache) <= MaxCacheSize

C5_Witness ==
    /\ Len(cache) = MaxCacheSize
    /\ scen.pure
    /\ Len(scen.log) = MaxCacheSize + 1
    /\ \A p \in Callers : AtRest(p)

\* C6: a request with temperature 0 whose key is cached with age < Ttl is a
\* hit: the cached response is returned with no generator call, the entry
\* moves to the most-recently-used end and the hit counter grows by one; an
\* expired entry is removed and the request goes on as a miss, as does a
\* request whose key is absent; a miss is counted and calls the generator.
C6_LookupHitOrMiss ==
    [][\A p \in Callers :
        /\ \A msg \in Msgs :
             Begins(p, msg, 0) =>
               LET k == <<msg, 0>> IN
               IF k \in CacheKeys(cache) /\ now - EntryOf(cache, k).timestamp < Ttl
               THEN /\ cpc'[p] = "returned"
                    /\ cres'[p] = EntryOf(cache, k).result
                    /\ calls'[p] = 0
                    /\ Len(cache') = Len(cache)
                    /\ cache'[Len(cache')] = EntryOf(cache, k)
                    /\ Others(cache', k) = Others(cache, k)
                    /\ cache_hits' = cache_hits + 1
                    /\ cache_misses' = cache_misses
               ELSE /\ cpc'[p] = "missed"
                    /\ cache' = Others(cache, k)
                    /\ cache_hits' = cache_hits
        /\ (cpc[p] = "missed" /\ cpc'[p] # "missed") =>
               /\ cpc'[p] = "call"
               /\ cache_misses' = cache_misses + 1
        /\ (cpc[p] = "call" /\ cpc'[p] # "call") => calls'[p] = 1]_vars

C6_Witness ==
    \E p \in Callers :
        /\ cpc[p] = "returned"
        /\ path[p] = "hit"
        /\ calls[p] = 0
        /\ cache_hits >= 1
        /\ Len(cache) = MaxCacheSize
        /\ cache[Len(cache)].result = cres[p]

\* C7: a request whose key is cached with age >= Ttl is never served from
\* that entry: the entry is removed, the request misses, the generator is
\* called exactly once and its response is stored under the key with the
\* current time.
C7_ExpiredEntryRefreshed ==
    [][\A p \in Callers :
        /\ \A msg \in Msgs :
             (/\ Begins(p, msg, 0)
              /\ <<msg, 0>> \in CacheKeys(cache)
              /\ now - EntryOf(cache, <<msg, 0>>).timestamp >= Ttl)
             => /\ cpc'[p] = "missed"
                /\ cres'[p] = NoResponse
                /\ calls'[p] = 0
                /\ <<msg, 0>> \notin CacheKeys(cache')
        /\ (cpc[p] \in {"missed", "call"} /\ cpc'[p] # cpc[p]) =>
              calls'[p] = IF cpc[p] = "call" THEN 1 ELSE 0
        /\ (cpc[p] = "insert" /\ cpc'[p] # "insert") =>
              LET k == <<creq[p].msg, creq[p].temp>> IN
              /\ calls[p] = 1 /\ calls'[p] = 1
              /\ cpc'[p] = "returned"
              /\ cres'[p] = cres[p]
              /\ k \in CacheKeys(cache')
              /\ EntryOf(cache', k) = [key |-> k, result |-> cres[p], timestamp |-> now]
              /\ Len(Others(cache', k)) = Len(cache') - 1]_vars

C7_Witness ==
    \E p \in Callers :
        /\ cpc[p] = "returned"
        /\ path[p] = "expired"
        /\ calls[p] = 1
        /\ cache # <<>>
        /\ cache[Len(cache)].result = cres[p]
        /\ cache[Len(cache)].timestamp >= Ttl

\* C8 as stated: after MaxCacheSize + 1 distinct keys were inserted into an
\* empty cache with no access in between, the cache holds exactly the keys
\* after the first, in insertion order.
C8_EvictsExactlyFirst ==
    (scen.pure /\ Len(scen.log) = MaxCacheSize + 1) => KeySeq(cache) = Tail(scen.log)

\* C8 amended: the same, when less than Ttl seconds lie between the first and
\* the last of the insertions (an entry that reaches Ttl may be removed by the
\* sweep that every SweepEvery-th miss runs).
C8_EvictsExactlyFirstWithinTtl ==
    (/\ scen.pure
     /\ Len(scen.log) = MaxCacheSize + 1
     /\ scen.last - scen.first < Ttl)
    => KeySeq(cache) = Tail(scen.log)

C8_Witness ==
    /\ scen.pure
    /\ Len(scen.log) = MaxCacheSize + 1
    /\ scen.last - scen.first < Ttl
    /\ KeySeq(cache) = Tail(scen.log)
    /\ scen.log[1] \notin CacheKeys(cache)
    /\ cache_misses >= SweepEvery

\* C9: a request with temperature other than 0 is counted as bypassed and
\* calls the generator; neither its first step nor its generator call changes
\* the cache table, the hit counter or the miss counter.
C9_BypassLeavesCache ==
    [][\A p \in Callers :
        /\ \A msg \in Msgs, temp \in Temperatures \ {0} :
             Begins(p, msg, temp) =>
                /\ cpc'[p] = "bypass_call"
                /\ cache_bypassed' = cache_bypassed + 1
                /\ cache' = cache
                /\ cache_hits' = cache_hits
                /\ cache_misses' = cache_misses
        /\ (cpc[p] = "bypass_call" /\ cpc'[p] # "bypass_call") =>
                /\ cpc'[p] \in {"returned", "raised"}
                /\ calls[p] = 0 /\ calls'[p] = 1
                /\ cache' = cache
                /\ cache_hits' = cache_hits
                /\ cache_misses' = cache_misses
                /\ cache_bypassed' = cache_bypassed]_vars

C9_Witness ==
    \E p \in Callers :
        /\ cpc[p] = "returned"
        /\ path[p] = "bypass"
        /\ calls[p] = 1
        /\ cache_bypassed >= 1
        /\ cache # <<>>

\* ------------------------------------------------------------------------
\* Properties of solve_task
\* ------------------------------------------------------------------------
LastEntry == trajectory[Len(trajectory)]
EvaluateEntries == {j \in 1..Len(trajectory) : trajectory[j].action = "evaluate"}
ThinkEntries == {j \in 1..Len(trajectory) : trajectory[j].action = "think"}

EndedSuccess ==
    /\ result.early_termination
    /\ Len(trajectory) >= 2
    /\ LastEntry.action = "success"
    /\ trajectory[Len(trajectory) - 1].action = "evaluate"
    /\ trajectory[Len(trajectory) - 1].score >= SuccessThreshold
EndedLoopDetected ==
    /\ result.loop_detected
    /\ Len(trajectory) >= 1
    /\ LastEntry.action = "loop_detected"
EndedError ==
    /\ Len(trajectory) >= 1
    /\ LastEntry.action = "error"
EndedMaxIterations ==
    /\ Cardinality(EvaluateEntries) = MaxIterations
    /\ \A j \in EvaluateEntries : trajectory[j].score < SuccessThreshold
    /\ Len(trajectory) >= 1 => LastEntry.action = "evaluate"

BoolToNat(b) == IF b THEN 1 ELSE 0

\* C1: a run of solve_task on a valid task makes at most MaxIterations think
\* steps and ends in exactly one of Success, LoopDetected, MaxIterations, Error.
C1_TerminatesInOneTerminalState ==
    /\ thinkCalls <= MaxIterations
    /\ pc = "done" =>
         BoolToNat(EndedSuccess) + BoolToNat(EndedLoopDetected)
           + BoolToNat(EndedError) + BoolToNat(EndedMaxIterations) = 1

C1_Witness ==
    /\ pc = "done"
    /\ EndedMaxIterations
    /\ thinkCalls = MaxIterations

\* C2: an evaluate entry with score >= SuccessThreshold ends the run at once:
\* it belongs to the last think step made, no later think or evaluate call
\* exists, early_termination is set, iterations is that iteration's number and
\* the returned score is that score (scores 60 then 85 end at iteration 2).
C2_EarlyTermination ==
    \A j \in EvaluateEntries :
        trajectory[j].score >= SuccessThreshold =>
            /\ pc = "done"
            /\ j = Len(trajectory) - 1
            /\ thinkCalls = trajectory[j].iteration
            /\ evalCalls = trajectory[j].iteration
            /\ result.early_termination
            /\ result.iterations = trajectory[j].iteration
            /\ result.score = trajectory[j].score
            /\ \A i \in EvaluateEntries : i < j => trajectory[i].score < SuccessThreshold

C2_Witness ==
    /\ pc = "done"
    /\ Len(trajectory) = 5
    /\ trajectory[2].action = "evaluate" /\ trajectory[2].score = 60
    /\ trajectory[4].action = "evaluate" /\ trajectory[4].score = 85
    /\ result.score = 85 /\ result.iterations = 2 /\ result.early_termination

\* C3: a think step returning the text of an earlier iteration of the run
\* hashes to a seen hash, appends a loop_detected entry and ends the run with
\* loop_detected set, without an evaluate call for that iteration.
C3_LoopDetection ==
    [][\A o \in ThinkOutcomes :
         (/\ ThinkStep(o)
          /\ o.kind = "ok"
          /\ \E j \in ThinkEntries : trajectory[j].output = o.solution)
         => /\ pc' = "done"
            /\ loop_detected'
            /\ result'.loop_detected
            /\ Len(trajectory') = Len(trajectory) + 1
            /\ trajectory'[Len(trajectory')].action = "loop_detected"
            /\ trajectory'[Len(trajectory')].iteration = iteration
            /\ \E j \in ThinkEntries :
                 /\ trajectory[j].output = o.solution
                 /\ trajectory'[Len(trajectory')].output
                      = IF trajectory[j].output = NumSolutions
                        THEN NumSolutions - 1 ELSE trajectory[j].output
            /\ evalCalls' = evalCalls
            /\ evalCalls' = iteration - 1]_vars

C3_Witness ==
    /\ pc = "done"
    /\ result.loop_detected
    /\ \E j \in ThinkEntries : trajectory[j].output = solution
    /\ evalCalls = Cardinality(ThinkEntries)

\* C4: on every exit path the returned solution is the solution of an
\* evaluated iteration with the highest evaluated score of the run, and the
\* returned score is that score.
C4_ReturnsBestEvaluated ==
    (pc = "done" /\ EvaluateEntries # {}) =>
        \E j \in EvaluateEntries :
            /\ \A i \in EvaluateEntries : trajectory[i].score <= trajectory[j].score
            /\ result.score = trajectory[j].score
            /\ \E t \in ThinkEntries :
                 /\ trajectory[t].iteration = trajectory[j].iteration
                 /\ result.solution = trajectory[t].output

\* ------------------------------------------------------------------------
\* Properties of solve_with_matts
\* ------------------------------------------------------------------------
Selected == mpc \in {"refine_think", "refine_eval", "done"} /\ candidates # <<>>

Generated == mpc \in {"refine_think", "refine_eval", "done"}
CandidateIds == {candidates[j].candidate_id : j \in 1..Len(candidates)}
LastOf(t) == t[Len(t)]

\* C11: when every generator call succeeded, the k requested candidates are
\* all scored, their ids are exactly 1..k, and each think step was given a
\* prompt without a solution or feedback of another candidate.
C11_KIndependentCandidates ==
    (Generated /\ ~mgenfail) =>
        /\ Len(candidates) = mk
        /\ CandidateIds = 1..mk
        /\ \A c \in 1..mk :
             /\ mprompts[c].kind # "none"
             /\ mprompts[c].previous_solution = None
             /\ mprompts[c].feedback = NoFeedback

\* C12: the refine pass runs only when refine_best is set and the selected
\* score is below the threshold; it makes one think call and, unless that
\* call failed, one evaluate call; the result is the refined solution when
\* its score is strictly greater than the selected candidate's, and the
\* selected candidate's solution and score otherwise.
C12_RefineOnlyStrictlyBetter ==
    /\ mrefcalls.think > 0 =>
         /\ Selected
         /\ mrefine
         /\ best_candidate.score < SuccessThreshold
    /\ mrefcalls.think <= 1
    /\ mrefcalls.evaluate <= mrefcalls.think
    /\ (mpc = "done" /\ candidates # <<>>) =>
         /\ mrefcalls.think = 1 =>
              (mrefcalls.evaluate = 1
                 <=> LastOf(mtrajectory).action # "matts_refine_error")
         /\ IF /\ mrefcalls.evaluate = 1
               /\ LastOf(mtrajectory).score > best_candidate.score
            THEN /\ mresult.solution = refined_solution
                 /\ mresult.score = LastOf(mtrajectory).score
            ELSE /\ mresult.solution = best_candidate.solution
                 /\ mresult.score = best_candidate.score

\* a refine pass whose score equals the selected score and whose solution
\* differs: the selected candidate is returned
C12_Witness ==
    /\ mpc = "done"
    /\ mrefcalls = [think |-> 1, evaluate |-> 1]
    /\ LastOf(mtrajectory).action = "matts_refine"
    /\ LastOf(mtrajectory).score = best_candidate.score
    /\ refined_solution # best_candidate.solution
    /\ mresult.solution = best_candidate.solution

\* C13: the prompt of the think step of the refine pass contains the
\* selected candidate's solution and its evaluation feedback.
C13_RefineSeededWithSelection ==
    mprompts[0].kind # "none" =>
        /\ mprompts[0].previous_solution = best_candidate.solution
        /\ mprompts[0].feedback = best_candidate.feedback

\* C14: in every mode each of the k candidates is either scored or has
\* failed by itself, so the scored candidates are the k requested ones
\* without the failed ones, and there are k minus the failed ones of them.
C14_FailureExcludesOnlyThatCandidate ==
    Generated =>
        /\ mfailed \subseteq 1..mk
        /\ CandidateIds = (1..mk) \ mfailed
        /\ Len(candidates) = mk - Cardinality(mfailed)
        /\ Len(candidates) <= mk

\* in the thread pool a candidate failed first and another one was still
\* generated, scored and selected
C14_Witness ==
    /\ Generated
    /\ mpath = "threads"
    /\ mresults # <<>>
    /\ ~IsCandidate(mresults[1])
    /\ candidates # <<>>
    /\ best_candidate.candidate_id \in CandidateIds

\* ------------------------------------------------------------------------
\* Properties of the error handling
\* ------------------------------------------------------------------------
ThinkFailures ==
    {i \in 1..Len(outcomes) : outcomes[i].step = "think" /\ outcomes[i].kind = "error"}
EvaluateFailures ==
    {i \in 1..Len(outcomes) : outcomes[i].step = "evaluate" /\ outcomes[i].kind = "failed"}
UnparsedEvaluations ==
    {i \in 1..Len(outcomes) : outcomes[i].step = "evaluate" /\ outcomes[i].kind = "unparsed"}

C16_EvaluateFailureEndsRun ==
    \A i \in EvaluateFailures :
        /\ i = Len(outcomes)
        /\ pc = "done"
        /\ EndedError
        /\ LastEntry.iteration = outcomes[i].iteration

C18_InvalidInputRejectedBeforeWork ==
    [][/\ (pc = "idle" /\ pc' = "raised") =>
            /\ task' < MinTaskLen
            /\ UNCHANGED agentVars
            /\ thinkCalls' = 0 /\ evalCalls' = 0 /\ retrievals' = 0
            /\ outcomes' = <<>>
       /\ (pc = "idle" /\ pc' \notin {"idle", "raised"}) => task' >= MinTaskLen
       /\ (mpc = "idle" /\ mpc' = "raised") =>
            /\ mtask' < MinTaskLen \/ mk' < 1
            /\ UNCHANGED agentVars
            /\ mgencalls' = NoCalls /\ mrefcalls' = NoCalls /\ mretrievals' = 0
       /\ (mpc = "idle" /\ mpc' \notin {"idle", "raised"}) =>
            /\ mtask' >= MinTaskLen
            /\ mk' >= 1
      ]_vars

\* solve_with_matts rejected k < 1 for a long enough task, and the agent
\* still holds the hashes and the token count of an earlier solve_task run
C18_Witness ==
    /\ mpc = "raised"
    /\ mk < 1
    /\ mtask >= MinTaskLen
    /\ trajectory_hashes # {}
    /\ total_tokens_used > 0

\* ------------------------------------------------------------------------
\* Properties of the cache under concurrent callers
\* ------------------------------------------------------------------------
InCall(p) == cpc[p] \in {"call", "bypass_call"}

\* C19: the table and the counters change only in steps that take the free
\* lock, and while a caller is inside its generator call the lock is free:
\* another caller's create (lookup, hit), its insert and a statistics read
\* can be carried out.
C19_GeneratorCalledOutsideLock ==
    /\ [](\A p \in Callers : InCall(p) =>
            /\ cache_lock = 0
            /\ ENABLED GetStatistics
            /\ \A q \in Callers \ {p} :
                 /\ (AtRest(q) /\ nCreate < MaxCreateLock) =>
                      \A msg \in Msgs : ENABLED Create(q, msg, 0, MaxCreateLock)
                 /\ cpc[q] = "insert" => ENABLED Insert(q))
    /\ [][(\/ cache' # cache
           \/ cache_hits' # cache_hits
           \/ cache_misses' # cache_misses
           \/ cache_bypassed' # cache_bypassed) => cache_lock = 0]_vars

\* while caller p is inside the generator call of a counted miss, the
\* statistics were read and, after that, caller q got a hit
C19_Witness ==
    \E p \in Callers, q \in Callers :
        /\ p # q
        /\ cpc[p] = "call"
        /\ stats.cache_misses = cache_misses
        /\ stats.cache_hits = 0
        /\ cache_hits = 1
        /\ cpc[q] = "returned"
        /\ path[q] = "hit"

\* C20: when an insertion makes the cache exceed its capacity, the entry
\* whose last access (insertion, re-insertion of a fresh result, or hit) is
\* the oldest is removed.
C20_EvictsLeastRecentlyUsed ==
    [][\A p \in Callers :
         (cpc[p] = "insert" /\ cpc'[p] = "returned") =>
            LET k == <<creq[p].msg, creq[p].temp>>
                size == Len(cache) + (IF k \in CacheKeys(cache) THEN 0 ELSE 1)
            IN  size > MaxCacheSize => Head(Touch(recency, k)) \notin CacheKeys(cache')
      ]_vars

\* ------------------------------------------------------------------------
\* Properties of the cache key
\* ------------------------------------------------------------------------
\* the same logical request: equal fields and the same set of extra parameters
SameRequest(a, b) ==
    /\ a.model = b.model
    /\ a.messages = b.messages
    /\ a.temperature = b.temperature
    /\ a.max_tokens = b.max_tokens
    /\ a.max_output_tokens = b.max_output_tokens
    /\ a.reasoning_effort = b.reasoning_effort
    /\ {a.kwargs[i] : i \in 1..Len(a.kwargs)} = {b.kwargs[i] : i \in 1..Len(b.kwargs)}

\* C21: the key of a request is the key of every request with the same
\* model, messages, temperature, token limits, reasoning effort and set of
\* extra parameters, in whatever order these are supplied, and of no other
\* request.
C21_KeyDeterminedByLogicalRequest ==
    kreq # NoKeyRequest =>
        \A r \in KeyRequests : SameRequest(r, kreq) <=> (cache_key(r) = kkey)

\* the key of a request whose extra parameters were supplied against the
\* order of their names
C21_Witness ==
    /\ Len(kreq.kwargs) = 2
    /\ kreq.kwargs[1][1] > kreq.kwargs[2][1]
    /\ kkey = cache_key([kreq EXCEPT !.kwargs = <<kreq.kwargs[2], kreq.kwargs[1]>>])

\* ------------------------------------------------------------------------
\* Properties of the cache: eviction scenario, statistics, failures
\* ------------------------------------------------------------------------
\* caller 1 begins the lookup of the first key of the scenario
LooksUpFirst(msg) ==
    /\ scen.pure
    /\ Len(scen.log) = MaxCacheSize + 1
    /\ <<msg, 0>> = scen.log[1]
    /\ Begins(1, msg, 0)

\* a request that missed on an absent key makes one generator call
AbsentCallsOnce ==
    \A p \in Callers :
        (path[p] = "absent" /\ cpc[p] \in {"insert", "returned", "raised"}) => calls[p] = 1

\* C22 as stated: after MaxCacheSize + 1 keys were inserted in order into the
\* empty cache with no read between them, a lookup of the first key misses
\* and leaves the later keys cached, and the request makes exactly one
\* generator call.
C22_EvictedKeyMisses ==
    /\ [][\A msg \in Msgs :
            LooksUpFirst(msg) =>
                /\ path'[1] = "absent"
                /\ cpc'[1] = "missed"
                /\ KeySeq(cache') = Tail(scen.log)]_vars
    /\ []AbsentCallsOnce

\* C22: the same, for insertions with less than Ttl between the first and
\* the last of them.
C22_EvictedKeyMissesWithinTtl ==
    /\ [][\A msg \in Msgs :
            (LooksUpFirst(msg) /\ scen.last - scen.first < Ttl) =>
                /\ path'[1] = "absent"
                /\ cpc'[1] = "missed"
                /\ KeySeq(cache') = Tail(scen.log)]_vars
    /\ []AbsentCallsOnce

\* the lookup of the first key has missed, the later keys are cached
C22_Witness ==
    /\ scen.pure
    /\ Len(scen.log) = MaxCacheSize + 1
    /\ scen.last - scen.first < Ttl
    /\ cpc[1] = "missed"
    /\ path[1] = "absent"
    /\ <<creq[1].msg, creq[1].temp>> = scen.log[1]
    /\ KeySeq(cache) = Tail(scen.log)

\* the statistics last read are consistent: total, hit rate, cost savings
StatisticsConsistent ==
    LET cacheable == stats.cache_hits + stats.cache_misses IN
    /\ stats.total_requests = stats.cache_hits + stats.cache_misses + stats.cache_bypassed
    /\ IF cacheable > 0
       THEN stats.hit_rate.num * cacheable = stats.cache_hits * stats.hit_rate.den
       ELSE stats.hit_rate.num = 0
    /\ IF stats.total_requests > 0
       THEN stats.cost_savings_estimate.num * stats.total_requests
                = stats.cache_hits * stats.cost_savings_estimate.den
       ELSE stats.cost_savings_estimate.num = 0
    /\ stats.hit_rate.den > 0
    /\ stats.cost_savings_estimate.den > 0

\* C23: whenever no create call is in progress, the three counters add up to
\* the number of create calls made and the generator was invoked once for
\* every miss and every bypass; the statistics read are consistent.
C23_EveryCreateCountedOnce ==
    /\ (\A p \in Callers : AtRest(p)) =>
          /\ cache_hits + cache_misses + cache_bypassed = nCreate
          /\ nCalls = cache_misses + cache_bypassed
    /\ StatisticsConsistent

\* C24: a create call raises only when its generator call raised.
C24_CacheFailureNeverPropagates ==
    \A p \in Callers : cpc[p] = "raised" => calls[p] = 1

\* ------------------------------------------------------------------------
\* Properties of solve_with_matts: result, tokens, mode
\* ------------------------------------------------------------------------
\* C25: the result reports failure exactly when no candidate was scored, that
\* is when the generation of every candidate failed; otherwise it carries
\* the solution and score of the selected candidate, or of its refinement
\* when the refinement scored strictly higher.
C25_FailureOnlyWithoutCandidates ==
    mpc = "done" =>
        /\ (mresult.solution = FailedCandidates) <=> (candidates = <<>>)
        /\ (candidates = <<>>) <=> (mfailed = 1..mk)
        /\ candidates = <<>> => mresult.score = 0
        /\ candidates # <<>> =>
             /\ \E j \in 1..Len(candidates) : candidates[j] = best_candidate
             /\ \/ /\ mresult.solution = best_candidate.solution
                   /\ mresult.score = best_candidate.score
                \/ /\ mrefcalls.evaluate = 1
                   /\ mresult.solution = refined_solution
                   /\ mresult.score > best_candidate.score

\* one of several candidates was scored and its refinement was taken
C25_Witness ==
    /\ mpc = "done"
    /\ Len(candidates) = 1
    /\ mfailed # {}
    /\ mresult.solution = refined_solution
    /\ mresult.score > best_candidate.score

RECURSIVE TokensOf(_)
TokensOf(cs) == IF cs = <<>> THEN 0 ELSE Head(cs).tokens_used + TokensOf(Tail(cs))

\* entries of trajectory t with action "matts_candidate" for candidate cid
ScoreEntries(t, cid) ==
    Cardinality({j \in 1..Len(t) :
                    t[j].action = "matts_candidate" /\ t[j].candidate_id = cid})

\* C26: the total_tokens of the result is the sum of tokens_used over the
\* scored candidates plus the tokens of the refine pass, in every mode and
\* after the fallback, and the trajectory holds one score entry for each
\* scored candidate and none for any other.
C26_TokensCountedOnce ==
    mpc = "done" =>
        /\ mresult.total_tokens = TokensOf(candidates) + mreftokens
        /\ total_tokens_used = mresult.total_tokens
        /\ \A cid \in 1..MaxK :
             ScoreEntries(mtrajectory, cid) = (IF cid \in CandidateIds THEN 1 ELSE 0)

\* after the fallback to the sequential generation, with a refine pass
C26_Witness ==
    /\ mpc = "done"
    /\ mpath = "fallback"
    /\ candidates # <<>>
    /\ mrefcalls.evaluate = 1
    /\ mreftokens > 0
    /\ mresult.total_tokens = TokensOf(candidates) + mreftokens

\* C27: a call with a mode other than "parallel" and "sequential" is not
\* rejected for it and generates its candidates as a parallel call does.
C27_UnknownModeRunsParallel ==
    /\ [][(mpc = "idle" /\ mmode' \notin {"none", "parallel", "sequential"}) =>
            /\ mpc' = "generate"
            /\ mpath' \in {"gather", "threads"}]_vars
    /\ [](mmode \notin {"none", "parallel", "sequential"} =>
            /\ mpc # "raised"
            /\ mpath \in {"gather", "threads", "fallback"})

\* a call with mode "best_of_n" ended with a scored candidate of the pool
C27_Witness ==
    /\ mmode = "best_of_n"
    /\ mpc = "done"
    /\ mpath = "threads"
    /\ candidates # <<>>

\* ------------------------------------------------------------------------
\* Properties of the memory retrieval of the agent
\* ------------------------------------------------------------------------
\* C28: when the retrieval of a run raised, the run uses no memories and is
\* not failed by it: it goes on to its generator calls.
C28_RetrievalFailureMeansNoMemories ==
    /\ retrieval_failed =>
          /\ memories = 0
          /\ retrievals = 1
          /\ pc \in {"think", "evaluate", "done"}
    /\ mretrieval_failed =>
          /\ mmemories = 0
          /\ mretrievals = 1
          /\ mpc \in {"generate", "refine_think", "refine_eval", "done"}

\* a solve_task run whose retrieval raised ended above the threshold
C28_Witness ==
    /\ retrieval_failed
    /\ pc = "done"
    /\ result.score >= SuccessThreshold
    /\ memories = 0

\* ------------------------------------------------------------------------
\* Properties of ReasoningBank
\* ------------------------------------------------------------------------
InUnit(q) == q.den > 0 /\ 0 <= q.num /\ q.num <= q.den

\* C29: with the weights of a constructed bank the composite score of every
\* memory is in [0, 1], and so is the composite score of every record a
\* call of compute_composite_score or retrieve_memories returned.
C29_CompositeScoreInUnitInterval ==
    /\ bank.state = "ready" =>
          \A m \in MemoryItems : InUnit(compute_composite_score(bank, m))
    /\ \A j \in 1..Len(found.memories) : InUnit(found.memories[j].composite_score)

\* the score of a memory with a trace time in the future was cut to 1
C29_Witness ==
    /\ found.state = "score"
    /\ found.memories[1].timestamp = "time"
    /\ found.memories[1].age < 0
    /\ bank.recency_weight.num * ExpNeg(found.memories[1].age)
          > bank.recency_weight.den * 100
    /\ found.memories[1].composite_score.num = found.memories[1].composite_score.den

ConfiguredTotal == bank.configured[1] + bank.configured[2] + bank.configured[3]
WeightSum ==
    bank.similarity_weight.num + bank.recency_weight.num + bank.error_weight.num

\* the weights in use have one positive denominator and the ratios of the
\* configured weights
RatiosKept ==
    /\ bank.similarity_weight.den > 0
    /\ bank.recency_weight.den = bank.similarity_weight.den
    /\ bank.error_weight.den = bank.similarity_weight.den
    /\ bank.similarity_weight.num * bank.configured[2]
          = bank.recency_weight.num * bank.configured[1]
    /\ bank.similarity_weight.num * bank.configured[3]
          = bank.error_weight.num * bank.configured[1]
    /\ bank.recency_weight.num * bank.configured[3]
          = bank.error_weight.num * bank.configured[2]

\* the weights never change after construction
WeightsSetOnce == [][bank.state = "ready" => bank' = bank]_vars

\* C30 as stated: whatever the configured weights, the bank is constructed
\* and its weights sum to 1 and keep the configured ratios, for good.
C30_WeightsSumToOne ==
    /\ [](bank.state # "none" =>
            /\ bank.state = "ready"
            /\ RatiosKept
            /\ WeightSum = bank.similarity_weight.den)
    /\ WeightsSetOnce

\* C30: a configured sum of 0 fails the construction; a sum within 1% of 1
\* is kept as configured; any other sum is divided out, and then the weights
\* sum to 1.  The weights in use keep the configured ratios, for good.
C30_WeightsNormalizedUnlessClose ==
    /\ [](bank.state # "none" =>
            /\ (bank.state = "raised") <=> (ConfiguredTotal = 0)
            /\ bank.state = "ready" =>
                 /\ RatiosKept
                 /\ IF 100 * Abs(ConfiguredTotal - 100) <= Max(ConfiguredTotal, 100)
                    THEN /\ bank.similarity_weight.den = 100
                         /\ WeightSum = ConfiguredTotal
                    ELSE WeightSum = bank.similarity_weight.den)
    /\ WeightsSetOnce

\* weights that summed to 1.2 were divided by their sum
C30_Witness ==
    /\ bank.state = "ready"
    /\ ConfiguredTotal = 120
    /\ bank.similarity_weight = Ratio(60, 120)
    /\ WeightSum = bank.similarity_weight.den
    /\ found.state = "ok"

\* ------------------------------------------------------------------------
\* Properties of retrieve_memories
\* ------------------------------------------------------------------------
\* the place of the record with id i in what the store returned
PlaceOf(i) == CHOOSE j \in 1..Len(found.candidates) : found.candidates[j].id = i
SameScore(q1, q2) == ~RatioGreater(q1, q2) /\ ~RatioGreater(q2, q1)
\* memory m1 ranks before memory m2: higher score, or equal score and
\* earlier in what the store returned
RanksBefore(m1, m2) ==
    \/ RatioGreater(m1.composite_score, m2.composite_score)
    \/ /\ SameScore(m1.composite_score, m2.composite_score)
       /\ PlaceOf(m1.id) < PlaceOf(m2.id)

\* C31: retrieve_memories asks the store for 2n records and returns the n
\* highest-ranked of those it got (all when fewer), by non-increasing
\* composite score, records of equal score in the order of the store.
C31_TopNInStableScoreOrder ==
    found.state = "ok" =>
        LET ms == found.memories
            returned == {ms[j].id : j \in 1..Len(ms)}
        IN
        /\ found.requested = 2 * found.n_results
        /\ Len(ms) = (IF Len(found.candidates) < found.n_results
                      THEN Len(found.candidates) ELSE found.n_results)
        /\ \A j \in 1..Len(ms) :
             ms[j] = Scored(bank, found.candidates[PlaceOf(ms[j].id)])
        /\ \A i, j \in 1..Len(ms) : i < j => RanksBefore(ms[i], ms[j])
        /\ \A c \in 1..Len(found.candidates) :
             found.candidates[c].id \notin returned =>
                \A j \in 1..Len(ms) : RanksBefore(ms[j], Scored(bank, found.candidates[c]))

\* two records of equal score were returned in the order of the store,
\* which is not the order of their ids
C31_Witness ==
    /\ found.state = "ok"
    /\ Len(found.memories) = 2
    /\ SameScore(found.memories[1].composite_score, found.memories[2].composite_score)
    /\ found.memories[1].id > found.memories[2].id
    /\ found.candidates[1].id = found.memories[1].id

\* the score of a memory of bank b whose similarity is sim
ScoreWithSimilarity(b, m, sim) ==
    compute_composite_score(b, [m EXCEPT !.has_similarity = TRUE,
                                         !.similarity_score = sim])

\* C32: the composite score of every returned record is computed with the
\* similarity the store returned for it.
C32_SimilarityFromStore ==
    found.state = "ok" =>
        \A j \in 1..Len(found.memories) :
            SameScore(found.memories[j].composite_score,
                      ScoreWithSimilarity(bank, found.memories[j],
                          found.candidates[PlaceOf(found.memories[j].id)].similarity))

\* ------------------------------------------------------------------------
\* Properties of the periodic sweep
\* ------------------------------------------------------------------------
NoneExpired(c, t) == \A j \in 1..Len(c) : _is_cache_valid(c[j].timestamp, t)

\* C33: the insert that completes a miss counted as a 10th, 20th, ... one
\* leaves no expired entry in the cache, whatever other callers did between
\* the count and the insert.
C33_TenthMissSweeps ==
    [][\A p \in Callers : (Insert(p) /\ due[p]) => NoneExpired(cache', now)]_vars

\* ------------------------------------------------------------------------
\* Properties of the per-run state of the agent
\* ------------------------------------------------------------------------
InRun == pc \in {"think", "evaluate", "done"}
\* the hashes of the solutions the think steps of this run recorded
RunHashes ==
    {_compute_trajectory_hash(trajectory[j].output) :
        j \in {i \in 1..Len(trajectory) : trajectory[i].action = "think"}}

\* C34: inside a run of solve_task the hash set holds the hashes of this
\* run's solutions and nothing else, a detected loop repeats a solution of
\* this run, and the token counter starts at 0 and holds no more than the
\* steps of this run can have reported (2 per think step, 3 per evaluation).
C34_RunStateIsPerRun ==
    InRun =>
        /\ trajectory_hashes = RunHashes
        /\ loop_detected =>
              /\ LastEntry.action = "loop_detected"
              /\ LastEntry.output \in RunHashes
        /\ trajectory = <<>> => total_tokens_used = 0
        /\ total_tokens_used <= 2 * (CountAction(trajectory, "think")
                                     + CountAction(trajectory, "loop_detected"))
                                + 3 * CountAction(trajectory, "evaluate")

\* a think step of this run has produced a solution the previous run had
\* recorded, and no loop was detected
C34_Witness ==
    /\ pc = "evaluate"
    /\ LastEntry.action = "think"
    /\ _compute_trajectory_hash(LastEntry.output) \in prev_hashes
    /\ ~loop_detected
    /\ trajectory_hashes = {_compute_trajectory_hash(LastEntry.output)}

\* ------------------------------------------------------------------------
\* Properties of the parallel generation and of its fallback
\* ------------------------------------------------------------------------
ParallelPath == mpath \in {"gather", "threads"}
\* the result the worker of candidate cid handed back
ResultOf(cid) == mresults[CHOOSE j \in 1..Len(mresults) : mresults[j].candidate_id = cid]
RECURSIVE TokensById(_)
TokensById(ids) ==
    IF ids = {} THEN 0
    ELSE ResultOf(MinOf(ids)).tokens_used + TokensById(ids \ {MinOf(ids)})
\* a worker has ended: one more result, the path and the position unchanged
WorkerStep ==
    /\ mpc = "generate" /\ mpc' = "generate"
    /\ ParallelPath /\ mpath' = mpath
    /\ Len(mresults') = Len(mresults) + 1

\* C35: a parallel worker writes neither the token counter nor the hash set
\* nor the trajectory nor the candidate list; once the coordinator has
\* collected the results, the scored candidates are the workers' results
\* that are candidates and the counter holds the sum of their tokens taken
\* by candidate id, whatever the order in which the workers ended.
C35_WorkersWriteNoSharedState ==
    /\ [][WorkerStep => UNCHANGED <<agentVars, mtrajectory, candidates>>]_vars
    /\ []((mpc = "generate" /\ ParallelPath) =>
             (total_tokens_used = 0 /\ candidates = <<>>))
    /\ []((mpc \in {"refine_think", "refine_eval", "done"} /\ ParallelPath) =>
             /\ CandidateIds = (1..mk) \ mfailed
             /\ \A j \in 1..Len(candidates) :
                  candidates[j] = ResultOf(candidates[j].candidate_id)
             /\ total_tokens_used = TokensById(CandidateIds) + mreftokens)

\* the workers ended in an order that is not the order of their ids, and
\* the coordinator has counted the one candidate among their results
C35_Witness ==
    /\ mpc = "done"
    /\ mpath = "threads"
    /\ Len(mresults) >= 2
    /\ mresults[1].candidate_id > mresults[2].candidate_id
    /\ candidates # <<>>
    /\ total_tokens_used = TokensById(CandidateIds)
    /\ total_tokens_used > 0

\* entries of trajectory t for candidate cid, scored or failed
AttemptEntries(t, cid) ==
    Cardinality({j \in 1..Len(t) :
                    /\ t[j].action \in {"matts_candidate", "matts_candidate_error"}
                    /\ t[j].candidate_id = cid})

\* C36: a call whose parallel generation failed as a whole returns a result
\* built from a sequential generation of all k candidates: each of 1..k is
\* attempted once, in id order, and nothing the parallel workers had
\* produced is counted.
C36_FallbackGeneratesAllSequentially ==
    (mpc = "done" /\ mpath = "fallback") =>
        /\ mresult.kind = "result"
        /\ mresults = <<>>
        /\ CandidateIds \cup mfailed = 1..mk
        /\ CandidateIds \cap mfailed = {}
        /\ \A i, j \in 1..Len(candidates) :
             i < j => candidates[i].candidate_id < candidates[j].candidate_id
        /\ \A cid \in 1..mk : AttemptEntries(mtrajectory, cid) = 1
        /\ mresult.iterations = Len(candidates)
        /\ mresult.total_tokens = TokensOf(candidates) + mreftokens

\* the worker of candidate 1 had called the generator before the parallel
\* generation failed, and the fallback generated candidate 1 again
C36_Witness ==
    /\ mpc = "done"
    /\ mpath = "fallback"
    /\ mk >= 2
    /\ mgencalls.think = 2
    /\ Len(candidates) = 1
    /\ mresult.total_tokens = candidates[1].tokens_used + mreftokens

\* ------------------------------------------------------------------------
\* Properties of MemoryCache
\* ------------------------------------------------------------------------
MemIdSeq(c) == [j \in 1..Len(c) |-> c[j].id]
\* a put of an id that is not cached, into a cache that is full
PutsNewIntoFull(memory_id, memory_data) ==
    /\ put(memory_id, memory_data)
    /\ memory_id \notin MemIds(mc_cache)
    /\ mc_cache # <<>>
    /\ Len(mc_cache) = mc_max_size

\* C37: a constructed MemoryCache never holds more than max_size entries
\* and never an id twice, and a put of a new id into a full cache removes
\* exactly the id whose last successful get or put is the oldest, caches the
\* new id and counts one eviction.
C37_BoundedAndEvictsLeastRecentlyUsed ==
    /\ [](mc_max_size # NotConstructed =>
            /\ Len(mc_cache) <= mc_max_size
            /\ Cardinality(MemIds(mc_cache)) = Len(mc_cache))
    /\ [][\A memory_id \in 1..NumMemIds, memory_data \in 1..NumMemData :
            PutsNewIntoFull(memory_id, memory_data) =>
                /\ MemIds(mc_cache') = (MemIds(mc_cache) \ {Head(mc_use)}) \cup {memory_id}
                /\ Len(mc_cache') = mc_max_size
                /\ mc_evictions' = mc_evictions + 1]_vars

\* max_size 3: ids 1, 2, 3 were put, 1 was read, and the put of 4 evicted 2
C37_Witness ==
    /\ mc_max_size = 3
    /\ MemIdSeq(mc_cache) = <<3, 1, 4>>
    /\ mc_evictions = 1
    /\ mc_hits = 1
    /\ mc_ops = 5

\* ------------------------------------------------------------------------
\* Properties of concurrent misses and of a failing generator
\* ------------------------------------------------------------------------
\* caller p has counted its miss and not yet stored or failed
MissInFlight(p) == cpc[p] \in {"call", "insert"} /\ path[p] \in {"absent", "expired"}
KeyOf(p) == _generate_cache_key(creq[p].msg, creq[p].temp)

\* C38: the cache holds at most one entry for a key and at most
\* MaxCacheSize entries; two callers that have both missed have been counted
\* as two misses, each count adding one; and after the insert of either the
\* one entry of the key holds that caller's result, so that after both the
\* entry holds the result of the insert made last.
C38_ConcurrentMissesLeaveOneEntry ==
    /\ [](/\ Cardinality(CacheKeys(cache)) = Len(cache)
          /\ Len(cache) <= MaxCacheSize
          /\ \A p, q \in Callers :
               (p # q /\ MissInFlight(p) /\ MissInFlight(q)) => cache_misses >= 2)
    /\ [][\A p \in Callers :
            /\ CountMiss(p) => cache_misses' = cache_misses + 1
            /\ Insert(p) =>
                 /\ KeyOf(p) \in CacheKeys(cache')
                 /\ EntryOf(cache', KeyOf(p)).result = cres[p]
                 /\ EntryOf(cache', KeyOf(p)).timestamp = now
                 /\ cache_misses' = cache_misses]_vars

\* two callers asked for the same absent key, both called the generator and
\* got different responses; both have stored, and the one entry holds the
\* response stored last
C38_Witness ==
    /\ nCreate = 2
    /\ \A p \in Callers : cpc[p] = "returned" /\ path[p] = "absent" /\ calls[p] = 1
    /\ cache_misses = 2
    /\ scen = BrokenScenario
    /\ Len(cache) = 1
    /\ cres[1] # cres[2]
    /\ cache[1].result = cres[2]

\* C39: when the generator raises on a miss, the exception leaves create:
\* the call ends raised with no response, the cache is exactly as it was (no
\* entry gained, none evicted), and the miss counted before the call stays
\* counted.
C39_FailedCallInsertsNothing ==
    [][\A p \in Callers :
         (cpc[p] = "call" /\ ApiCall(p, Raised)) =>
             /\ cpc'[p] = "raised"
             /\ cres'[p] = Raised
             /\ cache' = cache
             /\ cache_misses' = cache_misses
             /\ cache_misses >= 1
             /\ cache_hits' = cache_hits]_vars

\* the generator has raised on a miss for a key that is not cached, while
\* another key is
C39_Witness ==
    /\ \E p \in Callers :
         /\ cpc[p] = "raised"
         /\ path[p] = "absent"
         /\ calls[p] = 1
         /\ cres[p] = Raised
    /\ cache # <<>>
    /\ cache_misses = 2
    /\ nCreate = 2

\* ------------------------------------------------------------------------
\* Properties of the result of solve_task
\* ------------------------------------------------------------------------
\* C40: in every result of solve_task, iterations is the number of think
\* entries of the trajectory and at most MaxIterations, the score lies
\* between 0 and 1, and early_termination and loop_detected are not both set.
C40_ResultWellFormed ==
    pc = "done" =>
        /\ result.kind = "result"
        /\ result.iterations = Cardinality(ThinkEntries)
        /\ result.iterations <= MaxIterations
        /\ 0 <= result.score /\ result.score <= 100
        /\ ~(result.early_termination /\ result.loop_detected)

\* the last of MaxIterations iterations was given a score above 1, which is
\* returned as 1 and ends the run early
C40_Witness ==
    /\ pc = "done"
    /\ result.iterations = MaxIterations
    /\ result.score = 100
    /\ result.early_termination
    /\ ~result.loop_detected
    /\ LastEntry.action = "success"

====
